---- MODULE Spec2Model ----
(***************************************************************************)
(* Model of the energy-log ingestion pipeline:                             *)
(*   src/src/services/tuya-api.ts          (TuyaApiService)                *)
(*   src/src/services/energy-processor.ts  (EnergyProcessor, tariff rules) *)
(*                                                                         *)
(* Number representation.  A JavaScript number is an IEEE 754 double and    *)
(* is kept as one: NaN, an infinity, or sign, odd mantissa and binary      *)
(* exponent, the mantissa being a natural number of any size.  Sums,       *)
(* quotients, Math.floor, comparisons and parseFloat are computed exactly  *)
(* and rounded as the double arithmetic rounds them.  Timestamps are in    *)
(* the program's own units (seconds or milliseconds since 1970), energy is *)
(* in kWh.  Counts, sizes, ids and cursors are plain integers.  A day key  *)
(* "YYYY-MM-DD" is the integer YYYYMMDD, whose order is the order of the   *)
(* strings.  A text (the value of a log entry) is the sequence of its      *)
(* UTF-16 code units.  A Date is kept to the hour, as the day since        *)
(* 1970-01-01 and the hour of the day, or is the Invalid Date.             *)
(***************************************************************************)
EXTENDS Integers, Sequences, FiniteSets, TLC

VARIABLES
    store,   \* the DailyConsumption table: a sequence of rows, id = position
    remote,  \* the remote service's log of each device: a sequence of entries
    run,     \* per invocation slot: the position and locals of processEnergyLogs
    hist     \* history of the runs (not program state), and whether the
             \* remote service keeps to the window of a request

vars == <<store, remote, run, hist>>

----------------------------------------------------------------------------
(* Bounds of the model *)

MaxLog == 2        \* longest remote log of a device
MaxRuns == 2       \* invocations of processEnergyLogs for one device
PageLen == 1       \* entries the remote service puts in one page

Procs == {"p1", "p2"}
Devices == {"d1", "d2"}

----------------------------------------------------------------------------
(* The numbers of the program: IEEE 754 doubles, computed exactly *)

\* a natural number of any size is the sequence of its digits to the base
\* 2^15, lowest first, without leading zeros; 0 is <<>>
Base == 2^15
Pow2 == <<1, 2, 4, 8, 16, 32, 64, 128, 256, 512, 1024, 2048, 4096, 8192,
          16384, 32768>>

\* a without the zero digits at its top
bigNorm(a) ==
    IF \A j \in 1..Len(a) : a[j] = 0 THEN <<>>
    ELSE SubSeq(a, 1, CHOOSE j \in 1..Len(a) :
                          a[j] # 0 /\ \A k \in (j + 1)..Len(a) : a[k] = 0)

bigLimb(a, j) == IF j <= Len(a) THEN a[j] ELSE 0

\* of an integer 0 <= n < 2^31
bigOfInt(n) == bigNorm(<<n % Base, (n \div Base) % Base, n \div (Base * Base)>>)

\* the integer of a natural number below 2^31
bigToInt(a) == bigLimb(a, 1) + Base * bigLimb(a, 2) + Base * Base * bigLimb(a, 3)

\* the carry into digit j of a + b
bigCarry(a, b, j) ==
    IF \E i \in 1..(j - 1) :
          /\ bigLimb(a, i) + bigLimb(b, i) >= Base
          /\ \A k \in (i + 1)..(j - 1) : bigLimb(a, k) + bigLimb(b, k) = Base - 1
    THEN 1 ELSE 0

bigAddLen(a, b, n) ==
    bigNorm([j \in 1..(n + 1) |->
                (bigLimb(a, j) + bigLimb(b, j) + bigCarry(a, b, j)) % Base])

bigAdd(a, b) == bigAddLen(a, b, IF Len(a) > Len(b) THEN Len(a) ELSE Len(b))

\* the borrow from digit j of a - b
bigBorrow(a, b, j) ==
    IF \E i \in 1..(j - 1) :
          /\ a[i] < bigLimb(b, i)
          /\ \A k \in (i + 1)..(j - 1) : a[k] = bigLimb(b, k)
    THEN 1 ELSE 0

\* a - b, for a >= b
bigSub(a, b) ==
    bigNorm([j \in 1..Len(a) |->
                (a[j] - bigLimb(b, j) - bigBorrow(a, b, j) + Base) % Base])

\* -1, 0 or 1 as a is below, equal to or above b
bigCmp(a, b) ==
    IF Len(a) # Len(b) THEN (IF Len(a) < Len(b) THEN -1 ELSE 1)
    ELSE IF a = b THEN 0
    ELSE IF \E j \in 1..Len(a) :
               /\ a[j] < b[j]
               /\ \A k \in (j + 1)..Len(a) : a[k] = b[k]
    THEN -1 ELSE 1

\* the digits lo..hi of a * k + carry and the carry out of them, by halves
RECURSIVE bigMulRange(_, _, _, _, _)
bigMulRange(a, k, lo, hi, carry) ==
    IF lo = hi
    THEN <<<<(a[lo] * k + carry) % Base>>, (a[lo] * k + carry) \div Base>>
    ELSE CHOOSE r \in UNION
            { { <<low[1] \o high[1], high[2]>> :
                   high \in { bigMulRange(a, k, ((lo + hi) \div 2) + 1, hi,
                                          low[2]) } } :
                 low \in { bigMulRange(a, k, lo, (lo + hi) \div 2, carry) }
            } : TRUE

bigMulAll(r) == IF r[2] = 0 THEN r[1] ELSE Append(r[1], r[2])

\* a * k, for 0 <= k <= Base
bigMulSmall(a, k) ==
    IF k = 0 \/ a = <<>> THEN <<>>
    ELSE bigMulAll(bigMulRange(a, k, 1, Len(a), 0))

\* a * Base^n
bigShlLimbs(a, n) == IF a = <<>> THEN a ELSE [j \in 1..n |-> 0] \o a

RECURSIVE bigMul(_, _)
bigMul(a, b) ==
    IF b = <<>> THEN <<>>
    ELSE bigAdd(bigMulSmall(a, b[1]), bigShlLimbs(bigMul(a, Tail(b)), 1))

\* the digits lo..hi of (rem * Base^.. + a) \div k and the rest they leave,
\* from the top digit down, by halves
RECURSIVE bigDivRange(_, _, _, _, _)
bigDivRange(a, k, lo, hi, rem) ==
    IF lo = hi
    THEN <<<<(rem * Base + a[lo]) \div k>>, (rem * Base + a[lo]) % k>>
    ELSE CHOOSE r \in UNION
            { { <<low[1] \o high[1], low[2]>> :
                   low \in { bigDivRange(a, k, lo, (lo + hi) \div 2,
                                         high[2]) } } :
                 high \in { bigDivRange(a, k, ((lo + hi) \div 2) + 1, hi, rem) }
            } : TRUE

bigDivAll(r) == <<bigNorm(r[1]), r[2]>>

\* <<a \div k, a % k>>, for 0 < k < Base
bigDivSmall(a, k) ==
    IF a = <<>> THEN <<a, 0>> ELSE bigDivAll(bigDivRange(a, k, 1, Len(a), 0))

\* a * 2^n and a \div 2^n
bigShl(a, n) == bigShlLimbs(bigMulSmall(a, Pow2[(n % 15) + 1]), n \div 15)

bigShr(a, n) ==
    IF n \div 15 >= Len(a) THEN <<>>
    ELSE bigDivSmall(SubSeq(a, (n \div 15) + 1, Len(a)), Pow2[(n % 15) + 1])[1]

\* the number of binary digits of a
bigBitLen(a) ==
    IF a = <<>> THEN 0
    ELSE 15 * (Len(a) - 1)
         + (CHOOSE r \in 1..15 :
               Pow2[r] <= a[Len(a)] /\ a[Len(a)] < Pow2[r + 1])

\* binary digit i of a (digit 0 is the lowest)
bigBit(a, i) == (bigLimb(a, (i \div 15) + 1) \div Pow2[(i % 15) + 1]) % 2

\* one of the binary digits of a below digit i is 1
bigLowNonzero(a, i) ==
    \/ \E j \in 1..Len(a) : j <= i \div 15 /\ a[j] # 0
    \/ bigLimb(a, (i \div 15) + 1) % Pow2[(i % 15) + 1] # 0

\* the number of zero binary digits a # 0 ends with
bigTzAt(a, j) ==
    15 * (j - 1)
    + (CHOOSE r \in 0..14 : a[j] % Pow2[r + 1] = 0 /\ a[j] % Pow2[r + 2] # 0)

bigTz(a) ==
    bigTzAt(a, CHOOSE j \in 1..Len(a) :
                   a[j] # 0 /\ \A k \in 1..(j - 1) : a[k] = 0)

\* a number is NaN, an infinity, or (-1)^s * m * 2^e with m odd, or m zero
\* and e zero for +0 and -0
NumberNaN == [k |-> "nan", s |-> 0, m |-> <<>>, e |-> 0]
Infinity(s) == [k |-> "inf", s |-> s, m |-> <<>>, e |-> 0]
numZero(s) == [k |-> "num", s |-> s, m |-> <<>>, e |-> 0]

numIsZero(a) == a.k = "num" /\ a.m = <<>>

\* (-1)^s * n * 2^e, which is a double as it stands
numExactTz(s, n, e, tz) == [k |-> "num", s |-> s, m |-> bigShr(n, tz), e |-> e + tz]

numExact(s, n, e) ==
    IF n = <<>> THEN numZero(s) ELSE numExactTz(s, n, e, bigTz(n))

numInRange(s, n, e) ==
    IF bigBitLen(n) + e > 1024 THEN Infinity(s) ELSE numExact(s, n, e)

\* n * 2^e with its lowest d binary digits rounded away, to nearest, ties to
\* even; sticky says that the exact value lies above n * 2^e
numRoundAt(s, n, e, sticky, d) ==
    numInRange(s,
               IF /\ bigBit(n, d - 1) = 1
                  /\ (sticky \/ bigLowNonzero(n, d - 1) \/ bigBit(n, d) = 1)
               THEN bigAdd(bigShr(n, d), <<1>>)
               ELSE bigShr(n, d),
               e + d)

\* the binary digits a value of len digits at exponent e has too many for
\* the 53 of a double, whose lowest digit is 2^-1074
numExcess(len, e) ==
    IF len - 53 >= -1074 - e
    THEN (IF len > 53 THEN len - 53 ELSE 0)
    ELSE (IF -1074 - e > 0 THEN -1074 - e ELSE 0)

numRoundBy(s, n, e, sticky, d) ==
    IF d = 0 THEN numInRange(s, n, e) ELSE numRoundAt(s, n, e, sticky, d)

\* the double nearest to (-1)^s * n * 2^e (to a value just above it)
numRound(s, n, e, sticky) ==
    numRoundBy(s, n, e, sticky, numExcess(bigBitLen(n), e))

\* of an integer of the model, below 2^31 in size
numOfInt(n) ==
    IF n < 0 THEN numExact(1, bigOfInt(-n), 0) ELSE numExact(0, bigOfInt(n), 0)

numNeg(a) == IF a.k = "nan" THEN a ELSE [a EXCEPT !.s = 1 - a.s]

\* the position of the highest binary digit of a finite a # 0
numTop(a) == bigBitLen(a.m) + a.e

numAddAligned(sa, a, sb, b, e) ==
    IF sa = sb THEN numRound(sa, bigAdd(a, b), e, FALSE)
    ELSE IF bigCmp(a, b) = 0 THEN numZero(0)
    ELSE IF bigCmp(a, b) > 0 THEN numRound(sa, bigSub(a, b), e, FALSE)
    ELSE numRound(sb, bigSub(b, a), e, FALSE)

numAddAt(a, b, e) ==
    numAddAligned(a.s, bigShl(a.m, a.e - e), b.s, bigShl(b.m, b.e - e), e)

\* a + b
numAdd(a, b) ==
    IF a.k = "nan" \/ b.k = "nan" THEN NumberNaN
    ELSE IF a.k = "inf"
    THEN (IF b.k = "inf" /\ a.s # b.s THEN NumberNaN ELSE a)
    ELSE IF b.k = "inf" THEN b
    ELSE IF numIsZero(a)
    THEN (IF numIsZero(b) THEN numZero(IF a.s = 1 /\ b.s = 1 THEN 1 ELSE 0)
          ELSE b)
    ELSE IF numIsZero(b) THEN a
    ELSE IF numTop(a) - numTop(b) > 64 THEN a
    ELSE IF numTop(b) - numTop(a) > 64 THEN b
    ELSE numAddAt(a, b, IF a.e < b.e THEN a.e ELSE b.e)

numSub(a, b) == numAdd(a, numNeg(b))

\* |a| < |b|, for a and b not NaN
numMagLess(a, b) ==
    IF a.k = "inf" THEN FALSE
    ELSE IF b.k = "inf" THEN TRUE
    ELSE IF numIsZero(b) THEN FALSE
    ELSE IF numIsZero(a) THEN TRUE
    ELSE IF numTop(a) # numTop(b) THEN numTop(a) < numTop(b)
    ELSE IF a.e < b.e THEN bigCmp(a.m, bigShl(b.m, b.e - a.e)) < 0
    ELSE bigCmp(bigShl(a.m, a.e - b.e), b.m) < 0

numSign(a) == IF numIsZero(a) THEN 0 ELSE IF a.s = 1 THEN -1 ELSE 1

\* a < b
numLess(a, b) ==
    IF a.k = "nan" \/ b.k = "nan" THEN FALSE
    ELSE IF numSign(a) # numSign(b) THEN numSign(a) < numSign(b)
    ELSE IF numSign(a) = 1 THEN numMagLess(a, b)
    ELSE IF numSign(a) = -1 THEN numMagLess(b, a)
    ELSE FALSE

\* a === b
numEq(a, b) ==
    /\ a.k # "nan" /\ b.k # "nan"
    /\ (a = b \/ (numIsZero(a) /\ numIsZero(b)))

\* a <= b
numLeq(a, b) == numLess(a, b) \/ numEq(a, b)

\* a * k, for an integer 0 <= k < 2^31
numMulInt(a, k) ==
    IF a.k = "nan" THEN a
    ELSE IF a.k = "inf" THEN (IF k = 0 THEN NumberNaN ELSE a)
    ELSE numRound(a.s, bigMul(a.m, bigOfInt(k)), a.e, FALSE)

numQuotient(s, qr, e) == numRound(s, qr[1], e, qr[2] # 0)

\* a / k, for an integer 0 < k < 2^15
numDivInt(a, k) ==
    IF a.k # "num" \/ a.m = <<>> THEN a
    ELSE numQuotient(a.s, bigDivSmall(bigShl(a.m, 75), k), a.e - 75)

\* Math.floor
floor(a) ==
    IF a.k # "num" \/ a.e >= 0 THEN a
    ELSE IF a.s = 0 THEN numExact(0, bigShr(a.m, -a.e), 0)
    ELSE numExact(1, bigAdd(bigShr(a.m, -a.e), <<1>>), 0)

----------------------------------------------------------------------------
(* parseFloat: the text of a number read as a double *)

\* a text is the sequence of its UTF-16 code units, as a JavaScript string
\* is: "5" is <<53>>, "kWh" is <<107, 87, 104>>

\* the printable characters of ASCII, U+0020 to U+007E in order; the place
\* of U+0060, the grave accent, is left empty
AsciiChars ==
    <<" ", "!", "\"", "#", "$", "%", "&", "'",
      "(", ")", "*", "+", ",", "-", ".", "/",
      "0", "1", "2", "3", "4", "5", "6", "7",
      "8", "9", ":", ";", "<", "=", ">", "?",
      "@", "A", "B", "C", "D", "E", "F", "G",
      "H", "I", "J", "K", "L", "M", "N", "O",
      "P", "Q", "R", "S", "T", "U", "V", "W",
      "X", "Y", "Z", "[", "\\", "]", "^", "_",
      "", "a", "b", "c", "d", "e", "f", "g",
      "h", "i", "j", "k", "l", "m", "n", "o",
      "p", "q", "r", "s", "t", "u", "v", "w",
      "x", "y", "z", "{", "|", "}", "~">>

\* the code unit of a printable character of ASCII
codeUnit(c) == 31 + CHOOSE i \in 1..95 : AsciiChars[i] = c

\* the text written with printable characters of ASCII
Text(chars) == [i \in 1..Len(chars) |-> codeUnit(chars[i])]

\* the decimal digits, U+0030 to U+0039
Digits == codeUnit("0")..codeUnit("9")

\* StrWhiteSpaceChar, the white space and line terminators parseFloat skips:
\* U+0009 tab, U+000A line feed, U+000B vertical tab, U+000C form feed,
\* U+000D carriage return, U+0020 space, U+00A0 no-break space, U+1680,
\* U+2000 to U+200A, U+2028 and U+2029 (line and paragraph separator),
\* U+202F, U+205F, U+3000 and U+FEFF (byte order mark)
WhiteSpace ==
    {9, 10, 11, 12, 13, 32, 160, 5760} \cup (8192..8202)
        \cup {8232, 8233, 8239, 8287, 12288, 65279}

InfinityChars == Text(<<"I", "n", "f", "i", "n", "i", "t", "y">>)
MinusSign == codeUnit("-")
PlusSign == codeUnit("+")
DecimalPoint == codeUnit(".")
ExponentIndicators == {codeUnit("e"), codeUnit("E")}

\* the decimal text of a natural number of the model
RECURSIVE Decimal(_)
Decimal(n) == IF n < 10 THEN <<codeUnit("0") + n>>
              ELSE Append(Decimal(n \div 10), codeUnit("0") + (n % 10))

\* the code unit at position i, -1 where the text has none
charAt(text, i) == IF i >= 1 /\ i <= Len(text) THEN text[i] ELSE -1

\* the value of the digit at position i
digitAt(text, i) == text[i] - codeUnit("0")

\* the first position from i on whose code unit is not of S
RECURSIVE skipWhile(_, _, _)
skipWhile(text, i, S) ==
    IF i <= Len(text) /\ text[i] \in S THEN skipWhile(text, i + 1, S) ELSE i

\* the integer written by the digits at i..j-1, 999999 when it is larger
RECURSIVE intOfDigits(_, _, _, _)
intOfDigits(text, i, j, acc) ==
    IF i >= j THEN acc
    ELSE IF 10 * acc + digitAt(text, i) > 999999 THEN 999999
    ELSE intOfDigits(text, i + 1, j, 10 * acc + digitAt(text, i))

\* n * 10^x, by halves
RECURSIVE bigMulPow10(_, _)
bigMulPow10(n, x) ==
    IF x <= 4 THEN bigMulSmall(n, <<1, 10, 100, 1000, 10000>>[x + 1])
    ELSE CHOOSE r \in { bigMulPow10(half, x - (x \div 2)) :
                           half \in { bigMulPow10(n, x \div 2) } } : TRUE

\* the natural number written by the digits at i..j-1, by halves
RECURSIVE bigOfDigits(_, _, _)
bigOfDigits(text, i, j) ==
    IF i >= j THEN <<>>
    ELSE IF j = i + 1 THEN bigOfInt(digitAt(text, i))
    ELSE bigAdd(bigMulPow10(bigOfDigits(text, i, (i + j) \div 2),
                            j - ((i + j) \div 2)),
                bigOfDigits(text, (i + j) \div 2, j))

\* <<n \div k, whether the division left a rest or `rest` says so>>
bigDivSticky(qr, rest) == <<qr[1], rest \/ qr[2] # 0>>

\* <<n \div 10^x, whether the division left a rest>>, of ns = <<n, rest>>
RECURSIVE bigDivPow10(_, _)
bigDivPow10(ns, x) ==
    IF x <= 4
    THEN bigDivSticky(bigDivSmall(ns[1], <<1, 10, 100, 1000, 10000>>[x + 1]),
                      ns[2])
    ELSE CHOOSE r \in { bigDivPow10(half, x - (x \div 2)) :
                           half \in { bigDivPow10(ns, x \div 2) } } : TRUE

numOfSticky(s, ns, e) == numRound(s, ns[1], e, ns[2])

\* the double nearest to (-1)^s * n * 10^x, n written with len digits
numOfDecimal(s, n, x, len) ==
    IF n = <<>> THEN numZero(s)
    ELSE IF x > 400 THEN Infinity(s)
    ELSE IF x + len < -400 THEN numZero(s)
    ELSE IF x >= 0 THEN numRound(s, bigMulPow10(n, x), 0, FALSE)
    ELSE numOfSticky(s, bigDivPow10(<<bigShl(n, 80 - 4 * x), FALSE>>, -x),
                     4 * x - 80)

\* the digits at i..j-1 and f..g-1 are the integer and the fraction digits,
\* x is the exponent written after them
parseDigits(text, i, j, f, g, x, s) ==
    numOfDecimal(s,
                 bigAdd(bigMulPow10(bigOfDigits(text, i, j), g - f),
                        bigOfDigits(text, f, g)),
                 x - (g - f), (j - i) + (g - f))

\* the exponent digits are at a..b-1, none when b = a: then "e" and what
\* follows it are not part of the number
parseExponentDigits(text, i, j, f, g, s, neg, a, b) ==
    IF b = a THEN parseDigits(text, i, j, f, g, 0, s)
    ELSE IF neg THEN parseDigits(text, i, j, f, g, -intOfDigits(text, a, b, 0), s)
    ELSE parseDigits(text, i, j, f, g, intOfDigits(text, a, b, 0), s)

parseExponentSign(text, i, j, f, g, s, neg, a) ==
    parseExponentDigits(text, i, j, f, g, s, neg, a, skipWhile(text, a, Digits))

parseExponent(text, i, j, f, g, s) ==
    IF (j - i) + (g - f) = 0 THEN NumberNaN
    ELSE IF charAt(text, g) \notin ExponentIndicators
    THEN parseDigits(text, i, j, f, g, 0, s)
    ELSE IF charAt(text, g + 1) \in {PlusSign, MinusSign}
    THEN parseExponentSign(text, i, j, f, g, s,
                           charAt(text, g + 1) = MinusSign, g + 2)
    ELSE parseExponentSign(text, i, j, f, g, s, FALSE, g + 1)

parseFraction(text, i, j, s) ==
    IF charAt(text, j) = DecimalPoint
    THEN parseExponent(text, i, j, j + 1, skipWhile(text, j + 1, Digits), s)
    ELSE parseExponent(text, i, j, j, j, s)

parseUnsigned(text, i, s) ==
    IF i + 7 <= Len(text) /\ SubSeq(text, i, i + 7) = InfinityChars
    THEN Infinity(s)
    ELSE parseFraction(text, i, skipWhile(text, i, Digits), s)

parseSigned(text, i) ==
    IF charAt(text, i) = MinusSign THEN parseUnsigned(text, i + 1, 1)
    ELSE IF charAt(text, i) = PlusSign THEN parseUnsigned(text, i + 1, 0)
    ELSE parseUnsigned(text, i, 0)

\* parseFloat(text): white space, a sign, then "Infinity" or the longest
\* decimal literal the text goes on with; NaN when there is none
parseFloat(text) == parseSigned(text, skipWhile(text, 1, WhiteSpace))

----------------------------------------------------------------------------
(* Calendar arithmetic on Dates (what Date and Intl compute) *)

\* days since 1970-01-01 of the civil date y-m-d (proleptic Gregorian)
DaysFromCivil(y, m, d) ==
    LET yy  == IF m <= 2 THEN y - 1 ELSE y
        era == yy \div 400
        yoe == yy - era * 400
        mp  == IF m > 2 THEN m - 3 ELSE m + 9
        doy == (153 * mp + 2) \div 5 + d - 1
        doe == yoe * 365 + yoe \div 4 - yoe \div 100 + doy
    IN  era * 146097 + doe - 719468

\* <<year, month, day>> of the day number z, by way of the 400-year era, the
\* day of the era (doe), the year of the era (yoe), the day of the year
\* counted from March 1 (doy) and the month counted from March (mp)
CivilOfMonth(era, yoe, d, m) ==
    <<yoe + era * 400 + (IF m <= 2 THEN 1 ELSE 0), m, d>>

CivilOfMp(era, yoe, doy, mp) ==
    CivilOfMonth(era, yoe, doy - (153 * mp + 2) \div 5 + 1,
                 IF mp < 10 THEN mp + 3 ELSE mp - 9)

CivilOfDoy(era, yoe, doy) == CivilOfMp(era, yoe, doy, (5 * doy + 2) \div 153)

CivilOfYoe(era, doe, yoe) ==
    CivilOfDoy(era, yoe, doe - (365 * yoe + yoe \div 4 - yoe \div 100))

CivilOfDoe(era, doe) ==
    CivilOfYoe(era, doe,
               (doe - doe \div 1460 + doe \div 36524 - doe \div 146096) \div 365)

CivilOfEra(zz, era) == CivilOfDoe(era, zz - era * 146097)

CivilFromDays(z) == CivilOfEra(z + 719468, (z + 719468) \div 146097)

\* 0 = Sunday ... 6 = Saturday (1970-01-01 was a Thursday)
WeekdayOfDay(z) == (z + 4) % 7

\* A Date is kept to the hour: the day since 1970-01-01 (UTC) it lies in and
\* the hour of that day, or is the Invalid Date, which has neither
InvalidDate == [valid |-> FALSE, day |-> 0, hour |-> 0]

\* the Date of the epoch hour h
DateAt(h) == [valid |-> TRUE, day |-> h \div 24, hour |-> h % 24]

\* Date.getFullYear() of a valid Date (NaN for the Invalid Date); the host
\* clock is UTC
getFullYear(date) == CivilFromDays(date.day)[1]

\* day number of the last Sunday of month m (March or October) of year y
SundayOnOrBefore(last) == last - WeekdayOfDay(last)

LastSunday(y, m) == SundayOnOrBefore(DaysFromCivil(y, m, 31))

\* the Date is at or after 01:00 UTC of day number z
FromOneOClock(date, z) == date.day > z \/ (date.day = z /\ date.hour >= 1)

\* Europe/Skopje: UTC+1, and UTC+2 from the last Sunday of March 01:00 UTC
\* to the last Sunday of October 01:00 UTC
SkopjeOffsetInYear(date, y) ==
    IF /\ FromOneOClock(date, LastSunday(y, 3))
       /\ ~FromOneOClock(date, LastSunday(y, 10))
    THEN 2 ELSE 1

SkopjeOffset(date) == SkopjeOffsetInYear(date, getFullYear(date))

\* the day number and the hour (0..23) the Date has on the clocks of Skopje
SkopjeDay(date) == date.day + (date.hour + SkopjeOffset(date)) \div 24

SkopjeHourOfDay(date) == (date.hour + SkopjeOffset(date)) % 24

\* parseInt of toLocaleString("en-US", {hour: "2-digit", hour12: false}): the
\* hours of the day run 01..24, midnight reads "24"
SkopjeHour(date) ==
    IF SkopjeHourOfDay(date) = 0 THEN 24 ELSE SkopjeHourOfDay(date)

SkopjeWeekday(date) == WeekdayOfDay(SkopjeDay(date))

\* date.toLocaleDateString("en-CA", {timeZone: "Europe/Skopje"}) of a valid
\* Date, as the number yyyymmdd (the years the program keys a row by are the
\* four-digit years that pass its year guard)
DateKeyOf(c) == c[1] * 10000 + c[2] * 100 + c[3]

toDateKey(date) == DateKeyOf(CivilFromDays(SkopjeDay(date)))

\* faulty variant: the rules without the midday low tariff
isLowTariffAtNoMidday(hour, day) ==
    IF \/ (day = 6 /\ hour >= 22)
       \/ day = 0
       \/ (day = 1 /\ hour < 7)
    THEN TRUE
    ELSE IF hour >= 22 \/ hour < 7
    THEN TRUE
    ELSE FALSE

\* the tariff rules on the Skopje hour and weekday
isLowTariffAt(hour, day) ==
    IF \/ (day = 6 /\ hour >= 22)
       \/ day = 0
       \/ (day = 1 /\ hour < 7)
    THEN TRUE
    ELSE IF hour >= 13 /\ hour < 15
    THEN TRUE
    ELSE IF hour >= 22 \/ hour < 7
    THEN TRUE
    ELSE FALSE

\* NorthMacedoniaTariffRules.isLowTariff of a valid Date; of the Invalid
\* Date it throws (date.toISOString() in its log line is a RangeError), which
\* its caller aggregateAt models
isLowTariff(date) == isLowTariffAt(SkopjeHour(date), SkopjeWeekday(date))

----------------------------------------------------------------------------
(* The clock, the remote log entries and the stored rows *)

\* the number of an integer of the model
Num(n) == numOfInt(n)

\* the kWh of a reading whose value text is the numeral of n
Kwh(n) == numDivInt(numOfInt(n), 1000)

\* 0 < a, a > 0
numPositive(a) == numLess(numZero(0), a)

\* !a: a is 0, -0 or NaN
numFalsy(a) == a.k = "nan" \/ numIsZero(a)

\* the largest of a set of numbers none of which is NaN
numMax(S) == CHOOSE x \in S : \A y \in S : ~numLess(x, y)

\* the whole milliseconds of a finite number t, in size: new Date(t) drops
\* the fraction
timeValue(t) == IF t.e >= 0 THEN bigShl(t.m, t.e) ELSE bigShr(t.m, -t.e)

\* the largest time value of a Date in size, 8.64e15 ms (100 000 000 days
\* either side of 1970-01-01)
MaxTimeValue == bigMul(bigOfInt(86400000), bigOfInt(100000000))

\* new Date(t) is the Invalid Date: t is NaN, an infinity or beyond the range
invalidTime(t) == t.k # "num" \/ bigCmp(timeValue(t), MaxTimeValue) > 0

\* the whole hours of ms milliseconds
bigHours(ms) == bigDivSmall(bigDivSmall(ms, 1000)[1], 3600)[1]

\* the Date qr[1] days and qr[2] hours after 1970-01-01 00:00 UTC
dateAfter(qr) == [valid |-> TRUE, day |-> bigToInt(qr[1]), hour |-> qr[2]]

\* the Date qr[1] days and qr[2] hours before 1970-01-01 00:00 UTC
dateBefore(qr) ==
    IF qr[2] = 0
    THEN [valid |-> TRUE, day |-> -bigToInt(qr[1]), hour |-> 0]
    ELSE [valid |-> TRUE, day |-> -bigToInt(qr[1]) - 1, hour |-> 24 - qr[2]]

\* the epoch hour of Date.now(): 2025-06-18 10:00 UTC
NowHour == DaysFromCivil(2025, 6, 18) * 24 + 10

\* an event_time for the epoch hour h, in seconds and in milliseconds
Sec(h) == numMulInt(numOfInt(h), 3600)
Ms(h) == numMulInt(numOfInt(h), 3600000)

\* Date.now()
NowMs == Ms(NowHour)

\* Wed 2025-06-11 10:00, Wed 2025-06-11 14:00, Thu 2025-06-12 09:00 and
\* Thu 2025-06-12 14:00 in Skopje (UTC+2): high, low, high, low tariff
WedMorning == DaysFromCivil(2025, 6, 11) * 24 + 8
WedMidday == DaysFromCivil(2025, 6, 11) * 24 + 12
ThuMorning == DaysFromCivil(2025, 6, 12) * 24 + 7
ThuMidday == DaysFromCivil(2025, 6, 12) * 24 + 12

\* TuyaLogEntry, value being the text of the number v
LogEntry(code, t, v) ==
    [code |-> code, event_time |-> t, value |-> Decimal(v)]

\* the entries a device may report
EntryPool ==
    { LogEntry("add_ele", Ms(WedMorning), 100),
      LogEntry("add_ele", Ms(WedMidday), 200),
      LogEntry("add_ele", Ms(ThuMorning), 400),
      LogEntry("add_ele", Sec(ThuMidday), 800) }

\* Wed 2025-06-11 12:00 in Skopje: high tariff
WedNoon == DaysFromCivil(2025, 6, 11) * 24 + 10

\* readings of one day, for the runs that merge them in either order
SameDayPool ==
    { LogEntry("add_ele", Ms(WedMorning), 100),
      LogEntry("add_ele", Ms(WedMidday), 200),
      LogEntry("add_ele", Ms(WedNoon), 1600) }

AllEntries == EntryPool \cup SameDayPool

\* the values forceStartTimestamp takes: absent, 0, a millisecond timestamp
ForceChoices == { <<>>, <<Num(0)>>, <<Ms(WedMorning)>> }

\* a row of DailyConsumption (createdAt and updatedAt, which nothing reads,
\* are left out; the id is the row's position in store)
DailyConsumption(date, d, low, high, ts) ==
    [date |-> date, deviceId |-> d, lowTariffKwh |-> low,
     highTariffKwh |-> high, lastProcessedTimestamp |-> ts]

\* the row of readings of low and high Wh in all, each being one reading or
\* a sum the doubles hold exactly
Row(date, d, low, high, ts) == DailyConsumption(date, d, Kwh(low), Kwh(high), ts)

Range(q) == { q[i] : i \in 1..Len(q) }

MaxOf(S) == CHOOSE x \in S : \A y \in S : y <= x
MinOf(S) == CHOOSE x \in S : \A y \in S : x <= y

----------------------------------------------------------------------------
(* The persistence gateway: the four queries of processEnergyLogs *)

\* faulty variant: the watermark query without its where clause
maxLastTsAnyDevice(st, d) ==
    IF st = <<>> THEN numZero(0)
    ELSE numMax({ st[i].lastProcessedTimestamp : i \in 1..Len(st) })

\* select max(lastProcessedTimestamp) where deviceId = d: 0 stands for the
\* null of an empty selection (a stored timestamp is never 0)
maxLastTs(st, d) ==
    IF \A j \in 1..Len(st) : st[j].deviceId # d THEN numZero(0)
    ELSE numMax({ st[i].lastProcessedTimestamp :
                    i \in { j \in 1..Len(st) : st[j].deviceId = d } })

\* faulty variant: the lookup of the day's row never finds one
selectExistingNone(st, k, d) == 0

\* select().where(date = k and deviceId = d).get(): the id of the first
\* matching row, 0 when there is none
selectExisting(st, k, d) ==
    LET S == { i \in 1..Len(st) : st[i].date = k /\ st[i].deviceId = d }
    IN  IF S = {} THEN 0 ELSE MinOf(S)

\* faulty variant: the update writes the run's delta over the stored totals
updateRowOverwrite(st, id, existing, data) ==
    [st EXCEPT ![id] =
        [@ EXCEPT !.lowTariffKwh = data.lowTariffKwh,
                  !.highTariffKwh = data.highTariffKwh,
                  !.lastProcessedTimestamp = data.lastProcessedTimestamp]]

\* faulty variant: the update adds the delta and leaves the row's timestamp
updateRowKeepsTimestamp(st, id, existing, data) ==
    [st EXCEPT ![id] =
        [@ EXCEPT !.lowTariffKwh =
                     numAdd(existing.lowTariffKwh, data.lowTariffKwh),
                  !.highTariffKwh =
                     numAdd(existing.highTariffKwh, data.highTariffKwh)]]

\* update(...).set({...}).where(id = existing.id): the totals written are
\* those read by the select plus the run's delta
updateRow(st, id, existing, data) ==
    [st EXCEPT ![id] =
        [@ EXCEPT !.lowTariffKwh =
                     numAdd(existing.lowTariffKwh, data.lowTariffKwh),
                  !.highTariffKwh =
                     numAdd(existing.highTariffKwh, data.highTariffKwh),
                  !.lastProcessedTimestamp = data.lastProcessedTimestamp]]

\* insert(...).values({...}): the table has no unique index on
\* (date, device_id), so the insert always adds a row
insertRow(st, k, d, data) ==
    Append(st, DailyConsumption(k, d, data.lowTariffKwh, data.highTariffKwh,
                                data.lastProcessedTimestamp))

----------------------------------------------------------------------------
(* processEnergyLogs: the synchronous parts *)

\* 1e12
SecondsCutoff == numMulInt(numOfInt(1000000), 1000000)

\* the unit correction: an event_time below the cutoff is taken as seconds
correctedTimestamp(t) ==
    IF numLess(t, SecondsCutoff) THEN numMulInt(t, 1000) ELSE t

\* new Date().getFullYear()
currentYear == getFullYear(DateAt(NowHour))

\* faulty variant: the stale filter with >= for >
keepLogInclusive(log, lastProcessedTimestamp) ==
    ~numLess(log.event_time, lastProcessedTimestamp)

\* the stale filter's test on one entry
keepLog(log, lastProcessedTimestamp) ==
    numLess(lastProcessedTimestamp, log.event_time)

\* faulty variant: entries of every code are kept
anyCodeLogs(logs) == logs

\* allAddEleLogs
addEleLogs(logs) == SelectSeq(logs, LAMBDA log : log.code = "add_ele")

\* faulty variant: the filter applied in the forced mode, not the normal one
filterNewLogsInverted(force, allAddEleLogs, lastProcessedTimestamp) ==
    IF force = <<>> \/ ~numIsZero(force[1])
    THEN allAddEleLogs
    ELSE SelectSeq(allAddEleLogs,
                   LAMBDA log : keepLog(log, lastProcessedTimestamp))

\* faulty variant: the stale filter applied in every mode
filterNewLogsAlways(force, allAddEleLogs, lastProcessedTimestamp) ==
    SelectSeq(allAddEleLogs, LAMBDA log : keepLog(log, lastProcessedTimestamp))

\* newLogs
filterNewLogs(force, allAddEleLogs, lastProcessedTimestamp) ==
    IF force # <<>> /\ numIsZero(force[1])
    THEN allAddEleLogs
    ELSE SelectSeq(allAddEleLogs,
                   LAMBDA log : keepLog(log, lastProcessedTimestamp))

\* a day's accumulator; src is history: the entries added into it
NewDay == [lowTariffKwh |-> numZero(0), highTariffKwh |-> numZero(0),
           lastProcessedTimestamp |-> numZero(0), src |-> {}]

\* the guard on the year of an entry's date
suspiciousYear(dateYear) == dateYear < 2020 \/ dateYear > currentYear + 1

\* const valueKwh = parseFloat(log.value) / 1000
valueKwh(log) == numDivInt(parseFloat(log.value), 1000)

\* faulty variant: the entry's energy assigned, not added
addToDayAssign(day, log, timestamp, isLow) ==
    [lowTariffKwh |-> IF isLow THEN valueKwh(log) ELSE day.lowTariffKwh,
     highTariffKwh |-> IF isLow THEN day.highTariffKwh ELSE valueKwh(log),
     lastProcessedTimestamp |->
        IF numLess(day.lastProcessedTimestamp, timestamp)
        THEN timestamp ELSE day.lastProcessedTimestamp,
     src |-> day.src \cup {log}]

\* a day's accumulator after an entry of the corrected timestamp is added
addToDay(day, log, timestamp, isLow) ==
    [lowTariffKwh |->
        IF isLow THEN numAdd(day.lowTariffKwh, valueKwh(log))
        ELSE day.lowTariffKwh,
     highTariffKwh |->
        IF isLow THEN day.highTariffKwh
        ELSE numAdd(day.highTariffKwh, valueKwh(log)),
     lastProcessedTimestamp |->
        IF numLess(day.lastProcessedTimestamp, timestamp)
        THEN timestamp ELSE day.lastProcessedTimestamp,
     src |-> day.src \cup {log}]

\* faulty variant: one timestamp for the run, kept in the entry of every day
addToAggregatesRunWide(agg, log, timestamp, dateKey, isLow) ==
    [k \in DOMAIN agg \cup {dateKey} |->
        IF k = dateKey
        THEN addToDay(IF k \in DOMAIN agg THEN agg[k] ELSE NewDay,
                      log, timestamp, isLow)
        ELSE [agg[k] EXCEPT !.lastProcessedTimestamp =
                 IF numLess(@, timestamp) THEN timestamp ELSE @]]

\* dailyAggregates after an entry of the day dateKey is added
addToAggregates(agg, log, timestamp, dateKey, isLow) ==
    (dateKey :> addToDay(IF dateKey \in DOMAIN agg THEN agg[dateKey] ELSE NewDay,
                         log, timestamp, isLow)) @@ agg

\* the loop's state before its first entry: no accumulator, nothing thrown
NoAggregates == [agg |-> <<>>, thrown |-> FALSE]

\* the body of the aggregation loop, from new Date(timestamp) on.  Of the
\* Invalid Date getFullYear() is NaN, so neither comparison of the year guard
\* holds and the entry is not skipped: its day key reads "Invalid Date", the
\* day gets an accumulator, and isLowTariff(date) throws the RangeError of
\* date.toISOString().  The accumulators are locals of the run that ends
\* there, so of such an entry the state keeps the throw alone.
aggregateAt(s, log, timestamp, date) ==
    IF ~date.valid THEN [s EXCEPT !.thrown = TRUE]
    ELSE IF suspiciousYear(getFullYear(date)) THEN s
    ELSE [s EXCEPT !.agg = addToAggregates(s.agg, log, timestamp,
                                           toDateKey(date), isLowTariff(date))]

\* new Date(timestamp): the hour the time lies in, the Invalid Date for a
\* time that is NaN, infinite or more than 8.64e15 ms from 1970-01-01
dateOf(timestamp) ==
    IF invalidTime(timestamp) THEN InvalidDate
    ELSE IF timestamp.s = 0
    THEN dateAfter(bigDivSmall(bigHours(timeValue(timestamp)), 24))
    ELSE dateBefore(bigDivSmall(bigHours(bigAdd(timeValue(timestamp),
                                                bigOfInt(3599999))), 24))

\* the body of the aggregation loop for one entry; after a throw the loop
\* has ended
aggregateOne(s, log) ==
    IF s.thrown THEN s
    ELSE aggregateAt(s, log, correctedTimestamp(log.event_time),
                     dateOf(correctedTimestamp(log.event_time)))

\* the loop's state after it has gone from s over newLogs[lo..hi], in
\* order.  The range is taken in two halves, the second starting from the
\* value the first has left, which keeps the evaluation shallow on long logs.
RECURSIVE aggregate(_, _, _, _)
aggregate(newLogs, lo, hi, s) ==
    IF lo > hi THEN s
    ELSE IF lo = hi THEN aggregateOne(s, newLogs[lo])
    ELSE CHOOSE all \in
            { aggregate(newLogs, (lo + hi) \div 2 + 1, hi, half) :
                half \in { aggregate(newLogs, lo, (lo + hi) \div 2, s) } } :
            TRUE

\* the aggregation loop threw
aggregationThrows(newLogs) ==
    aggregate(newLogs, 1, Len(newLogs), NoAggregates).thrown

\* dailyAggregates after a loop that did not throw
dailyAggregates(newLogs) ==
    aggregate(newLogs, 1, Len(newLogs), NoAggregates).agg

\* faulty variant: the day entries taken latest date first
RECURSIVE sortByDateDescending(_, _)
sortByDateDescending(agg, keys) ==
    IF keys = {} THEN <<>>
    ELSE <<[dateKey |-> MaxOf(keys), data |-> agg[MaxOf(keys)]]>>
            \o sortByDateDescending(agg, keys \ {MaxOf(keys)})

\* Object.entries(dailyAggregates).sort(by date key)
RECURSIVE sortByDate(_, _)
sortByDate(agg, keys) ==
    IF keys = {} THEN <<>>
    ELSE LET k == MinOf(keys)
         IN  <<[dateKey |-> k, data |-> agg[k]]>> \o sortByDate(agg, keys \ {k})

sortedEntries(agg) == sortByDate(agg, DOMAIN agg)

----------------------------------------------------------------------------
(* getDeviceLogs: the window and the page loop *)

\* the size option passed by processEnergyLogs, the page size cap and the
\* default fetch ceiling
WantSize == 5000
RequestSizeCap == 100
DefaultMaxFetches == 50

\* 1e10
MillisCutoff == numMulInt(numOfInt(100000), 100000)

\* faulty variant: the watermark rounded up to whole seconds
startOptionRoundedUp(lastProcessedTimestamp) ==
    IF numPositive(lastProcessedTimestamp)
    THEN floor(numDivInt(numAdd(lastProcessedTimestamp, Num(999)), 1000))
    ELSE Num(-7)

\* faulty variant: without a watermark the start option is left out
startOptionAbsent(lastProcessedTimestamp) ==
    IF numPositive(lastProcessedTimestamp)
    THEN floor(numDivInt(lastProcessedTimestamp, 1000))
    ELSE Num(0)

\* the start option processEnergyLogs passes: the watermark in whole
\* seconds, or -7 (days)
startOption(lastProcessedTimestamp) ==
    IF numPositive(lastProcessedTimestamp)
    THEN floor(numDivInt(lastProcessedTimestamp, 1000))
    ELSE Num(-7)

\* a bound given as a number of days before now:
\* Math.floor((Date.now() / 1000 + x * 86400) * 1000)
daysFromNow(x) ==
    floor(numMulInt(numAdd(numDivInt(NowMs, 1000), numMulInt(x, 86400)), 1000))

\* a bound given as a timestamp:
\* x < 1e10 ? Math.floor(x * 1000) : Math.floor(x)
timestampBound(x) ==
    IF numLess(x, MillisCutoff) THEN floor(numMulInt(x, 1000)) ELSE floor(x)

\* endTime, lines 173-181
resolveEnd(end) ==
    IF numFalsy(end) THEN NowMs
    ELSE IF numLess(end, numZero(0)) THEN daysFromNow(end)
    ELSE timestampBound(end)

\* startTime, lines 183-191, before the swap
resolveStart(start, endTime) ==
    IF numFalsy(start) THEN numSub(endTime, Num(86400000))
    ELSE IF numLess(start, numZero(0)) THEN daysFromNow(start)
    ELSE timestampBound(start)

\* faulty variant: the bounds are used as resolved, inverted or not
resolveWindowUnswapped(start, end) ==
    <<resolveStart(start, resolveEnd(end)), resolveEnd(end)>>

swapIfInverted(s, e) == IF numLess(e, s) THEN <<e, s>> ELSE <<s, e>>

\* <<startTime, endTime>> of the request, swapped when inverted
resolveWindow(start, end) ==
    swapIfInverted(resolveStart(start, resolveEnd(end)), resolveEnd(end))

requestSize(size) == IF size = 0 \/ size > RequestSizeCap THEN RequestSizeCap ELSE size

\* The remote service's answer to a page request with cursor c (entries
\* already delivered): at most PageLen entries and at most the requested size,
\* has_next while entries remain, next_row_key the new cursor (0: none).  The
\* entries the service answers from are `log`: the device's log whatever the
\* window (the client never checks that the entries it is given lie inside
\* the window it asked for), or the entries of the log inside the window.
servePage(log, c, size) ==
    LET n  == IF PageLen < size THEN PageLen ELSE size
        hi == IF c + n < Len(log) THEN c + n ELSE Len(log)
    IN  [logs |-> SubSeq(log, c + 1, hi),
         has_next |-> hi < Len(log),
         next_row_key |-> IF hi < Len(log) THEN hi ELSE 0]

\* the entries of a log inside the window start_time..end_time of a request
inWindow(log, window) ==
    SelectSeq(log, LAMBDA e : /\ numLeq(window[1], e.event_time)
                              /\ numLeq(e.event_time, window[2]))

\* the entries the service answers a call from: those inside the window
\* when it keeps to the window (windowed), the whole log when it does not
servedLog(log, window, windowed) ==
    IF windowed THEN inWindow(log, window) ELSE log

\* the condition of the page loop
morePages(r) ==
    /\ r.maxFetchesRemaining > 0
    /\ r.has_next
    /\ (WantSize = 0 \/ Len(r.logs) < WantSize)
    /\ r.next_row_key # 0
    /\ r.nextRowKey # r.next_row_key

----------------------------------------------------------------------------
(* Observations on the store, for the history and the properties *)

RowsOf(st, d, k) ==
    { i \in 1..Len(st) : st[i].deviceId = d /\ st[i].date = k }

DatesOf(st, d) ==
    { st[i].date : i \in { j \in 1..Len(st) : st[j].deviceId = d } }

RECURSIVE SumLow(_, _)
SumLow(st, S) ==
    IF S = {} THEN numZero(0)
    ELSE numAdd(st[MinOf(S)].lowTariffKwh, SumLow(st, S \ {MinOf(S)}))

RECURSIVE SumHigh(_, _)
SumHigh(st, S) ==
    IF S = {} THEN numZero(0)
    ELSE numAdd(st[MinOf(S)].highTariffKwh, SumHigh(st, S \ {MinOf(S)}))

\* the stored <<low, high>> totals of each day of device d
TotalsOf(st, d) ==
    [k \in DatesOf(st, d) |->
        <<SumLow(st, RowsOf(st, d, k)), SumHigh(st, RowsOf(st, d, k))>>]

\* forceStartTimestamp || 0
forceOrZero(force) ==
    IF force # <<>> /\ ~numFalsy(force[1]) THEN force[1] ELSE numZero(0)

\* the rows of device d, in insertion order
DeviceRows(st, d) == SelectSeq(st, LAMBDA row : row.deviceId = d)

----------------------------------------------------------------------------
(* The state of one invocation of processEnergyLogs *)

Active == {"watermark", "token", "firstPage", "nextPage", "select", "write"}
Ended == {"idle", "done", "failed", "cancelled"}

NoRow == [id |-> 0, lowTariffKwh |-> numZero(0), highTariffKwh |-> numZero(0)]

\* the window of a run that has not asked yet
NoWindow == <<numZero(0), numZero(0)>>

NoLogs == "No new logs."
Completed == "Scheduled task completed successfully."

\* the locals at the entry of processEnergyLogs(d, force); force is <<>> when
\* the argument is absent and <<v>> when it is v
EntryState(d, force) ==
    [pc |-> "idle", deviceId |-> d, force |-> force,
     lastProcessedTimestamp |-> numZero(0), start |-> numZero(0),
     window |-> NoWindow,
     logs |-> <<>>, has_next |-> FALSE, next_row_key |-> 0, nextRowKey |-> 0,
     maxFetchesRemaining |-> 0, fetches |-> 0,
     allAddEleLogs |-> <<>>, newLogs |-> <<>>, sortedEntries |-> <<>>,
     existing |-> NoRow, status |-> "",
     \* history of the run
     wmRead |-> FALSE, wmFailed |-> FALSE, pageFailed |-> FALSE,
     aggFailed |-> FALSE,
     clean |-> FALSE, readded |-> FALSE, written |-> 0,
     prev |-> <<>>, prevCut |-> FALSE, target |-> <<>>, expect |-> <<>>]

\* the run ends by an error or a cancellation: its locals are gone
Abandon(r, pc) ==
    [EntryState(r.deviceId, r.force) EXCEPT
        !.pc = pc, !.lastProcessedTimestamp = r.lastProcessedTimestamp,
        !.start = r.start, !.window = r.window,
        !.wmRead = r.wmRead, !.wmFailed = r.wmFailed,
        !.pageFailed = r.pageFailed, !.aggFailed = r.aggFailed,
        !.readded = r.readded,
        !.written = r.written]

\* the run returns `status`
Return(r, status) ==
    [r EXCEPT !.pc = "done", !.status = status,
              !.sortedEntries = <<>>, !.existing = NoRow]

\* the row with identifier id as a lookup answers it, NoRow when id is 0
rowAt(st, id) ==
    IF id = 0 THEN NoRow
    ELSE [id |-> id, lowTariffKwh |-> st[id].lowTariffKwh,
          highTariffKwh |-> st[id].highTariffKwh]

\* the answer of the lookup of the row of day k of device d: the first row
\* of the day, NoRow when there is none
existingRow(st, k, d) == rowAt(st, selectExisting(st, k, d))

\* the totals the write of a day entry is to store: existing + delta, or the
\* delta alone
totalsToStore(existing, data) ==
    IF existing.id # 0
    THEN <<numAdd(existing.lowTariffKwh, data.lowTariffKwh),
           numAdd(existing.highTariffKwh, data.highTariffKwh)>>
    ELSE <<data.lowTariffKwh, data.highTariffKwh>>

\* low_tariff_kwh and high_tariff_kwh are real NOT NULL, and a NaN is bound
\* as NULL: a write of a NaN total fails
bindsNull(totals) == totals[1].k = "nan" \/ totals[2].k = "nan"

\* lines 261-302: one pass of the merge loop, the lookup having answered
\* `existing`, and the passes after it
RECURSIVE mergeAll(_, _, _, _)
mergeEntry(st, d, entries, i, existing) ==
    IF bindsNull(totalsToStore(existing, entries[i].data)) THEN st
    ELSE mergeAll(IF existing.id # 0
                  THEN updateRow(st, existing.id, existing, entries[i].data)
                  ELSE insertRow(st, entries[i].dateKey, d, entries[i].data),
                  d, entries, i + 1)

\* lines 258-303: the store the merge loop leaves from st over entries[i..]
\* when every query is answered and no other run writes in between: per day
\* the lookup, then the update or the insert; a write the table refuses
\* (bindsNull) throws, which ends the loop with the rows written so far
mergeAll(st, d, entries, i) ==
    IF i > Len(entries) THEN st
    ELSE mergeEntry(st, d, entries, i,
                    existingRow(st, entries[i].dateKey, d))

\* lines 254-258: the sorted day entries are handed to the merge loop
afterSort(r, st, sorted) ==
    IF Len(sorted) = 0 THEN Return(r, Completed)
    ELSE [r EXCEPT !.pc = "select", !.sortedEntries = sorted,
                   !.expect = <<TotalsOf(mergeAll(st, r.deviceId, sorted, 1),
                                         r.deviceId)>>]

\* lines 179-256: the aggregation and the sort; a throw of the aggregation
\* loop is caught at lines 311-314 and thrown on, which fails the run
afterAggregation(r, st) ==
    IF aggregationThrows(r.newLogs)
    THEN Abandon([r EXCEPT !.aggFailed = TRUE], "failed")
    ELSE afterSort(r, st, sortedEntries(dailyAggregates(r.newLogs)))

\* faulty variant: no early return when nothing survives the filter
afterFilterNoEarlyReturn(r, st) == afterAggregation(r, st)

\* lines 164-256: the early return, the aggregation and the sort
afterFilter(r, st) ==
    IF Len(r.newLogs) = 0 THEN Return(r, NoLogs)
    ELSE afterAggregation(r, st)

\* lines 143-256: getDeviceLogConvenience has returned r.logs; filter,
\* aggregate and sort, up to the first query of the merge loop
afterFetch(r, st) ==
    afterFilter([r EXCEPT
                    !.allAddEleLogs = addEleLogs(r.logs),
                    !.newLogs = filterNewLogs(r.force, addEleLogs(r.logs),
                                              r.lastProcessedTimestamp)],
                st)

\* the page loop goes on, or getDeviceLogs returns
afterPage(r, st) ==
    IF morePages(r) THEN [r EXCEPT !.pc = "nextPage"] ELSE afterFetch(r, st)

\* getDeviceLogs lines 216-262 and 273-324: the locals after a request for
\* `window` is answered with the result `page`: the first request of the
\* call (r.fetches = 0) or a further one
withAnswer(r, window, page) ==
    IF r.fetches = 0
    THEN [r EXCEPT
            !.window = window,
            !.logs = page.logs,
            !.has_next = page.has_next,
            !.next_row_key = page.next_row_key,
            !.nextRowKey = 0,
            !.maxFetchesRemaining = DefaultMaxFetches - 1,
            !.fetches = 1]
    ELSE [r EXCEPT
            !.maxFetchesRemaining = @ - 1,
            !.fetches = @ + 1,
            !.nextRowKey = r.next_row_key,
            !.logs = @ \o page.logs,
            !.has_next = page.has_next,
            !.next_row_key =
                IF page.next_row_key # 0 THEN page.next_row_key ELSE @]

\* the service's answer to the request of r for `window`: the first request
\* carries no cursor, a further one the cursor of the last answer
answerTo(r, window, log, windowed) ==
    withAnswer(r, window,
               servePage(servedLog(log, window, windowed),
                         IF r.fetches = 0 THEN 0 ELSE r.next_row_key,
                         requestSize(WantSize)))

\* getDeviceLogs lines 169-262 and 273-324: the locals after a request is
\* answered with a result from `log`; the first request of the call fixes
\* the window, which the further ones carry
withPage(r, log, windowed) ==
    answerTo(r, IF r.fetches = 0 THEN resolveWindow(r.start, Num(0))
                ELSE r.window,
             log, windowed)

\* getDeviceLogs lines 169-333, every request answered with a result: the
\* logs it returns to a run whose first request has been answered, the page
\* loop going on while morePages
RECURSIVE fetchedLogs(_, _, _)
fetchedLogs(r, log, windowed) ==
    IF ~morePages(r) THEN r.logs
    ELSE CHOOSE logs \in { fetchedLogs(r1, log, windowed) :
                              r1 \in {withPage(r, log, windowed)} } : TRUE

\* lines 106-117: the timestamp a run of d alone on st processes from
soloWatermark(st, d, force) ==
    IF numFalsy(forceOrZero(force)) /\ ~numFalsy(maxLastTs(st, d))
    THEN maxLastTs(st, d) ELSE forceOrZero(force)

\* lines 125-162: the logs a run alone fetches from timestamp ts on, filtered
soloLogs(d, force, ts, log, windowed) ==
    filterNewLogs(force,
                  addEleLogs(fetchedLogs(
                      withPage([EntryState(d, force) EXCEPT
                                   !.start = startOption(ts)],
                               log, windowed),
                      log, windowed)),
                  ts)

\* lines 164-310: the store a run alone leaves from st over the logs `new`
soloMerge(st, d, new) ==
    IF aggregationThrows(new) THEN st
    ELSE mergeAll(st, d, sortedEntries(dailyAggregates(new)), 1)

\* the store that one invocation for device d leaves when it runs alone and
\* every call is answered: the watermark of st, the fetch of the window from
\* that watermark (as many pages as the page loop asks for, from the entries
\* the service answers from), the filter, the aggregation and the merge
\* loop; st itself when the aggregation throws, the rows written before the
\* refused write when a write is refused
soloRun(st, d, force, log, windowed) ==
    soloMerge(st, d,
              soloLogs(d, force, soloWatermark(st, d, force), log, windowed))

----------------------------------------------------------------------------
(* History bookkeeping *)

\* how many times entry x was added into a stored row of d (merged[d] holds
\* the entries added at least once)
timesMerged(h, d, x) == IF x \in DOMAIN h.merged[d] THEN h.merged[d][x] ELSE 0

\* a run of device d is in flight in a slot other than p
OtherActive(p, d) ==
    \E q \in Procs \ {p} : run[q].pc \in Active /\ run[q].deviceId = d

\* the history after slot p has moved to r2 with the store st2:
\*   lastClean[d]  the totals left by the last run of d, when that run was a
\*                 normal-mode run in which every call succeeded
\*   resume[d]     the totals an interrupted normal-mode run of d would have
\*                 left had it not been interrupted in its merge loop
\*   solo[d]       the rows of d had every run of d so far run alone, from
\*                 its call to its return, with every call succeeding
\*   merged[d][e]  how many times entry e was added into a stored row of d
\*   order[d]      per run of d that wrote a row, the entries it merged
\*   overlapped    two runs of one device have been in flight together
\*   interleaved   runs of two devices have been in flight together
\*   turned        the logs have turned over (LogsTurnOver)
\*   cut[d]        the fetch of the run of lastClean[d] ended with has_next
\*                 set: the page ceiling stopped it with more to fetch
\* and, of the environment, fixed from the start:
\*   windowed      the remote service keeps to the window of a request
Settle(h, r1, r2, st2) ==
    LET d == r2.deviceId
    IN  IF r2.pc = "done" /\ r2.clean
        THEN [h EXCEPT !.lastClean[d] = <<TotalsOf(st2, d)>>,
                       !.cut[d] = r2.has_next]
        ELSE IF r2.pc \in {"failed", "cancelled"} /\ r1.clean
                /\ r1.pc \in {"select", "write"}
        THEN [h EXCEPT !.resume[d] = r1.expect]
        ELSE h

\* slot p moves to r2, the store to st2
Move(p, r2, st2) ==
    /\ run' = [run EXCEPT ![p] = r2]
    /\ store' = st2
    /\ hist' = Settle(hist, run[p], r2, st2)
    /\ UNCHANGED remote

----------------------------------------------------------------------------
(* The environment *)

\* the device reports a reading: the remote service appends it to the log
DeviceReports(d, e) ==
    /\ Len(remote[d]) < MaxLog
    /\ \A i \in 1..Len(remote[d]) : remote[d][i] # e
    /\ \A q \in Procs : ~(run[q].pc \in Active /\ run[q].deviceId = d)
    /\ remote' = [remote EXCEPT ![d] = Append(@, e)]
    /\ hist' = [hist EXCEPT !.lastClean[d] = <<>>, !.resume[d] = <<>>]
    /\ UNCHANGED <<store, run>>

\* The logs turn over between the first and the second run of each device:
\* the readings each device held leave the service's window and each device
\* reports readings of the instants, tariffs and values the other had held.
LogsTurnOver ==
    /\ ~hist.turned
    /\ \A d \in Devices : hist.runs[d] = 1
    /\ \A q \in Procs : run[q].pc \notin Active
    /\ remote' = [d \in Devices |->
                     remote[CHOOSE o \in Devices : o # d]]
    /\ hist' = [hist EXCEPT !.turned = TRUE,
                            !.lastClean = [d \in Devices |-> <<>>],
                            !.resume = [d \in Devices |-> <<>>]]
    /\ UNCHANGED <<store, run>>

----------------------------------------------------------------------------
(* processEnergyLogs, one action per await *)

\* lines 93-105: the call; the watermark query is skipped only for a
\* truthy forceStartTimestamp
processEnergyLogs(p, d, force) ==
    /\ run[p].pc \in Ended
    /\ hist.runs[d] < MaxRuns
    /\ LET ts == forceOrZero(force)
           r0 == [EntryState(d, force) EXCEPT
                     !.lastProcessedTimestamp = ts,
                     !.clean = (force = <<>>),
                     !.prev = IF force = <<>> THEN hist.lastClean[d] ELSE <<>>,
                     !.prevCut = hist.cut[d],
                     !.target = IF force = <<>> THEN hist.resume[d] ELSE <<>>]
           r1 == IF numFalsy(ts)
                 THEN [r0 EXCEPT !.pc = "watermark"]
                 ELSE [r0 EXCEPT !.pc = "token", !.start = startOption(ts)]
       IN  /\ run' = [run EXCEPT ![p] = r1]
           /\ hist' = [hist EXCEPT
                          !.runs[d] = @ + 1,
                          !.overlapped = @ \/ OtherActive(p, d),
                          !.interleaved = @ \/ \E q \in Procs \ {p} :
                              run[q].pc \in Active /\ run[q].deviceId # d,
                          !.solo[d] = soloRun(@, d, force, remote[d],
                                              hist.windowed),
                          !.lastClean[d] = <<>>,
                          !.cut[d] = FALSE,
                          !.resume[d] = <<>>]
    /\ UNCHANGED <<store, remote>>

\* lines 106-117: the watermark query answers
ReadWatermark(p) ==
    /\ run[p].pc = "watermark"
    /\ LET r   == run[p]
           res == maxLastTs(store, r.deviceId)
           ts  == IF ~numFalsy(res) THEN res ELSE r.lastProcessedTimestamp
       IN  Move(p, [r EXCEPT !.pc = "token", !.wmRead = TRUE,
                             !.lastProcessedTimestamp = ts,
                             !.start = startOption(ts)], store)

\* lines 118-123: the watermark query throws; "Assuming first run."
ReadWatermarkFails(p) ==
    /\ run[p].pc = "watermark"
    /\ LET r == run[p]
       IN  Move(p, [r EXCEPT !.pc = "token", !.wmRead = TRUE,
                             !.wmFailed = TRUE, !.clean = FALSE,
                             !.start = startOption(r.lastProcessedTimestamp)],
                store)

\* getAccessToken: responseData.success
GetAccessToken(p) ==
    /\ run[p].pc = "token"
    /\ Move(p, [run[p] EXCEPT !.pc = "firstPage"], store)

\* getAccessToken throws "Failed to get access token"
GetAccessTokenFails(p) ==
    /\ run[p].pc = "token"
    /\ Move(p, Abandon(run[p], "failed"), store)

\* getDeviceLogs lines 169-262: the first request is answered with success
\* and a result
FirstPage(p) ==
    /\ run[p].pc = "firstPage"
    /\ Move(p, afterPage(withPage(run[p], remote[run[p].deviceId],
                                  hist.windowed), store), store)

\* faulty variant: a refused first request is taken for an empty log
FirstPageFailsQuietly(p) ==
    /\ run[p].pc = "firstPage"
    /\ Move(p, Return([run[p] EXCEPT
                          !.window = resolveWindow(run[p].start, Num(0)),
                          !.pageFailed = TRUE, !.clean = FALSE], NoLogs),
            store)

\* lines 241-251: the first request throws, or success is false on its
\* response: getDeviceLogs throws
FirstPageFails(p) ==
    /\ run[p].pc = "firstPage"
    /\ LET r == [run[p] EXCEPT !.window = resolveWindow(run[p].start, Num(0)),
                               !.pageFailed = TRUE]
       IN  Move(p, Abandon(r, "failed"), store)

\* lines 256, 333 and 143: the first response has success but no result;
\* getDeviceLogs returns it and reading result.logs throws
FirstPageNoResult(p) ==
    /\ run[p].pc = "firstPage"
    /\ LET r == [run[p] EXCEPT !.window = resolveWindow(run[p].start, Num(0)),
                               !.pageFailed = TRUE]
       IN  Move(p, Abandon(r, "failed"), store)

\* lines 273-324: a further request is answered with a result, whatever
\* its success says
NextPage(p) ==
    /\ run[p].pc = "nextPage"
    /\ Move(p, afterPage(withPage(run[p], remote[run[p].deviceId],
                                  hist.windowed), store), store)

\* lines 311, 325-333: a further response has no result (a failure answer
\* carries none): the loop breaks and the pages so far are returned
NextPageNoResult(p) ==
    /\ run[p].pc = "nextPage"
    /\ LET r  == run[p]
           r1 == [r EXCEPT
                      !.maxFetchesRemaining = @ - 1,
                      !.fetches = @ + 1,
                      !.nextRowKey = r.next_row_key,
                      !.pageFailed = TRUE,
                      !.clean = FALSE]
       IN  Move(p, afterFetch(r1, store), store)

\* lines 303-309: a further request throws (the fetch rejects, or the body
\* is not JSON): getDeviceLogs and the run reject, nothing is written
NextPageFails(p) ==
    /\ run[p].pc = "nextPage"
    /\ Move(p, Abandon([run[p] EXCEPT !.pageFailed = TRUE], "failed"), store)

\* lines 261-270: the lookup of the day's row answers
SelectBucket(p) ==
    /\ run[p].pc = "select"
    /\ Move(p, [run[p] EXCEPT
                   !.pc = "write",
                   !.existing = existingRow(store,
                                            Head(run[p].sortedEntries).dateKey,
                                            run[p].deviceId)], store)

\* lines 299-302: the lookup throws
SelectBucketFails(p) ==
    /\ run[p].pc = "select"
    /\ Move(p, Abandon(run[p], "failed"), store)

\* lines 272-298 and 305-310: the update or insert of the day's row succeeds
UpsertBucket(p) ==
    /\ run[p].pc = "write"
    /\ ~bindsNull(totalsToStore(run[p].existing,
                                Head(run[p].sortedEntries).data))
    /\ LET r    == run[p]
           d    == r.deviceId
           e    == Head(r.sortedEntries)
           st2  == IF r.existing.id # 0
                   THEN updateRow(store, r.existing.id, r.existing, e.data)
                   ELSE insertRow(store, e.dateKey, d, e.data)
           rest == Tail(r.sortedEntries)
           r1   == [r EXCEPT
                      !.sortedEntries = rest,
                      !.existing = NoRow,
                      !.written = @ + 1,
                      !.readded = @ \/ \E x \in e.data.src : timesMerged(hist, d, x) > 0]
           r2   == IF rest = <<>> THEN Return(r1, Completed)
                   ELSE [r1 EXCEPT !.pc = "select"]
       IN  /\ run' = [run EXCEPT ![p] = r2]
           /\ store' = st2
           /\ hist' = [Settle(hist, r, r2, st2) EXCEPT
                          !.merged[d] = [x \in DOMAIN @ \cup e.data.src |->
                              IF x \in e.data.src
                              THEN timesMerged(hist, d, x) + 1 ELSE @[x]],
                          !.order[d] =
                              IF r.written = 0 THEN Append(@, e.data.src)
                              ELSE [@ EXCEPT ![Len(@)] = @ \cup e.data.src]]
           /\ UNCHANGED remote

\* faulty variant: a failed update or insert is logged and the loop goes on
UpsertBucketSkips(p) ==
    /\ run[p].pc = "write"
    /\ Move(p,
            IF Tail(run[p].sortedEntries) = <<>>
            THEN Return([run[p] EXCEPT !.sortedEntries = <<>>], Completed)
            ELSE [run[p] EXCEPT !.pc = "select", !.existing = NoRow,
                                !.sortedEntries = Tail(@)],
            store)

\* lines 299-302: the update or insert throws
UpsertBucketFails(p) ==
    /\ run[p].pc = "write"
    /\ Move(p, Abandon(run[p], "failed"), store)

\* the host cancels the invocation while it awaits
Cancel(p) ==
    /\ run[p].pc \in Active
    /\ Move(p, Abandon(run[p], "cancelled"), store)

----------------------------------------------------------------------------
(* Specifications *)

\* nothing has happened yet; the remote service answers from a device's log
\* whatever the window
NoHistory ==
    [runs |-> [d \in Devices |-> 0], overlapped |-> FALSE,
     merged |-> [d \in Devices |-> [e \in {} |-> 0]],
     solo |-> [d \in Devices |-> <<>>],
     order |-> [d \in Devices |-> <<>>],
     interleaved |-> FALSE, turned |-> FALSE,
     lastClean |-> [d \in Devices |-> <<>>],
     cut |-> [d \in Devices |-> FALSE],
     resume |-> [d \in Devices |-> <<>>],
     windowed |-> FALSE]

InitLocal ==
    /\ store = <<>>
    /\ run = [p \in Procs |-> EntryState("d1", <<>>)]
    /\ hist = NoHistory

\* an empty table, no invocation yet, nothing reported yet
Init ==
    /\ InitLocal
    /\ remote = [d \in Devices |-> <<>>]

Steps(p) ==
    \/ ReadWatermark(p)
    \/ ReadWatermarkFails(p)
    \/ GetAccessToken(p)
    \/ GetAccessTokenFails(p)
    \/ FirstPage(p)
    \/ FirstPageFails(p)
    \/ FirstPageNoResult(p)
    \/ NextPage(p)
    \/ NextPageNoResult(p)
    \/ NextPageFails(p)
    \/ SelectBucket(p)
    \/ SelectBucketFails(p)
    \/ UpsertBucket(p)
    \/ UpsertBucketFails(p)
    \/ Cancel(p)

\* one device, one invocation at a time, in any mode, with every failure
Next ==
    \/ \E e \in EntryPool : DeviceReports("d1", e)
    \/ \E f \in ForceChoices : processEnergyLogs("p1", "d1", f)
    \/ Steps("p1")

Spec == Init /\ [][Next]_vars

\* the steps of a run in which every call succeeds
GoodSteps(p) ==
    \/ ReadWatermark(p)
    \/ GetAccessToken(p)
    \/ FirstPage(p)
    \/ NextPage(p)
    \/ SelectBucket(p)
    \/ UpsertBucket(p)

\* the logs a device may hold: no entry twice, at most MaxLog entries
RECURSIVE LogsOver(_, _)
LogsOver(pool, n) ==
    IF n = 0 THEN { <<>> }
    ELSE LET shorter == LogsOver(pool, n - 1)
         IN  shorter \cup
             { Append(l, e) : l \in shorter, e \in pool }

InjectiveLogs(pool, n) ==
    { l \in LogsOver(pool, n) :
        \A i, j \in 1..Len(l) : i # j => l[i] # l[j] }

\* two invocation slots and two devices over fixed remote logs (any log for
\* d1, a two-day log served newest first for d2): MaxRuns
\* normal-mode runs in all, every call succeeding, overlapping at will
InitConc ==
    /\ InitLocal
    /\ remote \in
         { r \in [Devices -> InjectiveLogs(EntryPool, MaxLog)] :
             r["d2"] = <<LogEntry("add_ele", Ms(ThuMorning), 400),
                         LogEntry("add_ele", Ms(WedMidday), 200)>> }

NextConc ==
    \/ \E p \in Procs, d \in Devices :
          /\ hist.runs["d1"] + hist.runs["d2"] < MaxRuns
          /\ processEnergyLogs(p, d, <<>>)
    \/ \E p \in Procs : GoodSteps(p)

SpecConc == InitConc /\ [][NextConc]_vars

\* two devices holding disjoint sets of readings of one day, which they
\* exchange between runs: one invocation at a time, normal or with
\* forceStartTimestamp = 0, every call succeeding
InitAdd ==
    /\ InitLocal
    /\ remote \in
         { r \in [Devices -> InjectiveLogs(SameDayPool, MaxLog) \ { <<>> }] :
             Range(r["d1"]) \cap Range(r["d2"]) = {} }

NextAdd ==
    \/ LogsTurnOver
    \/ \E d \in Devices, f \in {<<>>, <<Num(0)>>} : processEnergyLogs("p1", d, f)
    \/ GoodSteps("p1")

SpecAdd == InitAdd /\ [][NextAdd]_vars

----------------------------------------------------------------------------
(* Properties of sequential runs (Spec) *)

PastFilter == {"select", "write", "done"}

\* C2  Resume safety: when a normal-mode run is interrupted in its merge loop
\* and a complete normal-mode run over the same remote log follows, the stored
\* totals are those the interrupted run would have left uninterrupted.
ResumeSafety ==
    \A p \in Procs :
        (run[p].pc = "done" /\ run[p].clean /\ run[p].target # <<>>)
            => TotalsOf(store, run[p].deviceId) = run[p].target[1]

\* C3  Watermark-read failure is safe: a run whose watermark query failed adds
\* no reading that the stored totals already include.
WatermarkFailureSafe ==
    \A p \in Procs : run[p].wmFailed => ~run[p].readded

\* C4  Monotonicity: no step lowers the lastProcessedTimestamp of a stored row.
BucketTimestampMonotone ==
    [][\A i \in 1..Len(store) :
          ~numLess(store'[i].lastProcessedTimestamp,
                   store[i].lastProcessedTimestamp)]_vars

\* C5  All-or-nothing fetch: a run one of whose page responses was a failure
\* (success false, or no result) never goes on to filter and aggregate.
AllOrNothingFetch ==
    \A p \in Procs : run[p].pageFailed => run[p].pc \notin PastFilter

\* the same entry with its event_time given in milliseconds
InMillis(e) == [e EXCEPT !.event_time = correctedTimestamp(e.event_time)]

\* C6  Unit correction: in a normal-mode run the stale filter keeps a fetched
\* entry exactly when it keeps the entry of the same instant given in
\* milliseconds.
UnitCorrection ==
    \A p \in Procs :
        (run[p].pc \in PastFilter /\ run[p].force = <<>>) =>
            \A e \in Range(run[p].allAddEleLogs) :
                (e \in Range(run[p].newLogs))
                    <=> (filterNewLogs(run[p].force, <<InMillis(e)>>,
                                       run[p].lastProcessedTimestamp) # <<>>)

\* C8  Window start: a run given a forceStartTimestamp, 0 included, does not
\* query the stored watermark, and the start it asks the remote service for is
\* the one the forced value gives.
WindowStart ==
    \A p \in Procs :
        run[p].force # <<>> =>
            /\ ~run[p].wmRead
            /\ run[p].pc \in (Active \ {"watermark"}) \cup PastFilter
                   => run[p].start = startOption(run[p].force[1])

----------------------------------------------------------------------------
(* Properties of runs that merge in either order (SpecAdd) *)

\* the stored <<low, high>> of day k of device d, zeros without a row
DayTotal(st, d, k) ==
    <<SumLow(st, RowsOf(st, d, k)), SumHigh(st, RowsOf(st, d, k))>>

\* the day of an entry
DayOfEntry(e) == toDateKey(dateOf(correctedTimestamp(e.event_time)))

\* device d1 merged A in one run and B in its next, device d2 merged B and
\* then A, A and B being disjoint sets of readings of one day
MergedInOppositeOrder ==
    /\ Len(hist.order["d1"]) = 2
    /\ Len(hist.order["d2"]) = 2
    /\ hist.order["d1"][1] = hist.order["d2"][2]
    /\ hist.order["d1"][2] = hist.order["d2"][1]
    /\ hist.order["d1"][1] \cap hist.order["d1"][2] = {}
    /\ \A e, x \in hist.order["d1"][1] \cup hist.order["d1"][2] :
           DayOfEntry(e) = DayOfEntry(x)
    /\ \A p \in Procs : run[p].pc \notin Active

\* C7  Additivity: when one device has merged A in one run and B in the next,
\* and another B first and A second, A and B disjoint sets of valid readings of
\* one day, the day's stored low and high totals are the same for both.
Additivity ==
    MergedInOppositeOrder =>
        \A e \in hist.order["d1"][1] :
            DayTotal(store, "d1", DayOfEntry(e))
                = DayTotal(store, "d2", DayOfEntry(e))

\* both orders have been merged, with energy in the day's totals
AdditivityWitness ==
    /\ MergedInOppositeOrder
    /\ \E e \in hist.order["d1"][1] :
           /\ DayTotal(store, "d1", DayOfEntry(e)) # <<numZero(0), numZero(0)>>
           /\ DayTotal(store, "d1", DayOfEntry(e))
                  = DayTotal(store, "d2", DayOfEntry(e))

----------------------------------------------------------------------------
(* Properties of overlapping runs (SpecConc) *)

\* per day, the sums over the log with every reading counted once
OnceEach(log) == dailyAggregates(addEleLogs(log))

\* the stored totals of some day of some device exceed the sums of the
\* day's readings counted once each
DoubleCounted ==
    \E d \in Devices : \E k \in DatesOf(store, d) :
        LET once == OnceEach(remote[d])
        IN  \/ k \notin DOMAIN once
            \/ numLess(once[k].lowTariffKwh, SumLow(store, RowsOf(store, d, k)))
            \/ numLess(once[k].highTariffKwh, SumHigh(store, RowsOf(store, d, k)))

\* C9  Same-device race: energy is counted twice only when two runs of one
\* device have overlapped (RaceWitness is the reachable state in which two
\* overlapping runs have double-counted).
RaceOnlyByOverlap == DoubleCounted => hist.overlapped

RaceWitness == DoubleCounted /\ hist.overlapped

\* a step changes or adds only rows of the device of the run that takes it,
\* for the day that run is merging, a day of one of its surviving readings
FrameStep ==
    /\ Len(store') >= Len(store)
    /\ \A i \in 1..Len(store') :
         (i > Len(store) \/ store'[i] # store[i]) =>
            \E p \in Procs :
                /\ run[p].pc = "write"
                /\ run'[p] # run[p]
                /\ store'[i].deviceId = run[p].deviceId
                /\ store'[i].date = Head(run[p].sortedEntries).dateKey
                /\ \E e \in Range(run[p].newLogs) :
                       DayOfEntry(e) = store'[i].date

\* while no two runs of one device have overlapped, the rows of a device
\* with no run in flight are those its runs would have left running alone
AsIfAlone ==
    ~hist.overlapped =>
        \A d \in Devices :
            (\A p \in Procs : ~(run[p].pc \in Active /\ run[p].deviceId = d))
                => DeviceRows(store, d) = hist.solo[d]

\* C10  Device partitioning: a run writes only rows of its own device, for
\* days of its surviving readings, and runs of different devices, interleaved
\* at will, leave each device the rows its runs leave when run alone.
DevicePartitioning == []AsIfAlone /\ [][FrameStep]_vars

\* runs of the two devices have been in flight together and have both
\* returned, leaving rows for both devices
DevicePartitioningWitness ==
    /\ hist.interleaved /\ ~hist.overlapped
    /\ \A p \in Procs : run[p].pc = "done" /\ run[p].written > 0
    /\ run["p1"].deviceId # run["p2"].deviceId
    /\ \A d \in Devices : DeviceRows(store, d) # <<>>

----------------------------------------------------------------------------
(* One batch: valid, corrupt and foreign entries in one log (SpecBatch) *)

\* Sat 2025-06-14 23:00 in Skopje: weekend low tariff
SatNight == DaysFromCivil(2025, 6, 14) * 24 + 21

\* Sat 2025-06-14 23:30 in Skopje, in milliseconds
SatHalfPastEleven == numAdd(Ms(SatNight), Num(1800000))

\* Wed 2025-06-11 14:30 and 12:30 in Skopje, in milliseconds: low and high
WedHalfPastTwo == numAdd(Ms(WedMidday), Num(1800000))
WedHalfPastTwelve == numAdd(Ms(WedNoon), Num(1800000))

\* 1e16: a time beyond the range of Date, as a timestamp in nanoseconds is
BeyondDate == numMulInt(Num(100000000), 100000000)

\* instants of the years 1970, 2026 (the year after the clock's) and 2099
In1970 == DaysFromCivil(1970, 1, 2) * 24
In2026 == DaysFromCivil(2026, 6, 3) * 24 + 10
In2099 == DaysFromCivil(2099, 6, 1) * 24 + 10

\* the entries of a batch: readings of three days of 2025 and one of 2026,
\* in milliseconds and in seconds, two of them of one day at low tariff and
\* two at high, readings of 1970 and of 2099, a reading whose time is beyond
\* the range of Date, and a report of another data point
BatchPool ==
    { LogEntry("add_ele", SatHalfPastEleven, 500),
      LogEntry("add_ele", Ms(WedMidday), 300),
      LogEntry("add_ele", WedHalfPastTwo, 200),
      LogEntry("add_ele", Ms(WedMorning), 100),
      LogEntry("add_ele", WedHalfPastTwelve, 1600),
      LogEntry("add_ele", BeyondDate, 100),
      LogEntry("add_ele", Sec(ThuMidday), 800),
      LogEntry("add_ele", Ms(In2026), 50),
      LogEntry("add_ele", Sec(In1970), 700),
      LogEntry("add_ele", Ms(In2099), 900),
      LogEntry("cur_power", Ms(WedMidday), 1200) }

\* one device over a fixed log of batch entries: runs one at a time, normal
\* or with forceStartTimestamp = 0, every call succeeding
InitBatch ==
    /\ InitLocal
    /\ remote \in
         { r \in [Devices -> InjectiveLogs(BatchPool, MaxLog)] : r["d2"] = <<>> }

NextBatch ==
    \/ \E f \in {<<>>, <<Num(0)>>} : processEnergyLogs("p1", "d1", f)
    \/ GoodSteps("p1")

SpecBatch == InitBatch /\ [][NextBatch]_vars

\* the calendar year of an entry's corrected timestamp lies outside
\* 2020..currentYear+1: the year of its Date does, or the time is beyond the
\* range of Date, whose years end at 275760
CorruptYear(e) ==
    \/ invalidTime(correctedTimestamp(e.event_time))
    \/ getFullYear(dateOf(correctedTimestamp(e.event_time))) < 2020
    \/ getFullYear(dateOf(correctedTimestamp(e.event_time))) > currentYear + 1

\* the log without its entries of a corrupt year
WithoutCorrupt(log) == SelectSeq(log, LAMBDA e : ~CorruptYear(e))

\* the add_ele entries of a log whose year is in range
ValidReadings(log) ==
    { e \in Range(log) : e.code = "add_ele" /\ ~CorruptYear(e) }

\* a run has returned and no other is in flight
Returned(p) == run[p].pc = "done" /\ \A q \in Procs : run[q].pc \notin Active

\* C11  Corrupt-timestamp guard: an entry of a corrupt year is never added
\* into a row; every row is of the day of a valid reading and carries the
\* corrected timestamp of a valid reading; the first run over a log leaves
\* the rows it leaves over the same log with the corrupt entries taken out;
\* and no run fails, every remote and persistence call succeeding.
CorruptTimestampGuard ==
    /\ \A e \in Range(remote["d1"]) :
          CorruptYear(e) => timesMerged(hist, "d1", e) = 0
    /\ \A i \in 1..Len(store) :
          \E e \in ValidReadings(remote[store[i].deviceId]) :
             /\ store[i].date = DayOfEntry(e)
             /\ \E x \in ValidReadings(remote[store[i].deviceId]) :
                   store[i].lastProcessedTimestamp
                       = correctedTimestamp(x.event_time)
    /\ (Returned("p1") /\ hist.runs["d1"] = 1) =>
          store = soloRun(<<>>, "d1", run["p1"].force,
                          WithoutCorrupt(remote["d1"]), hist.windowed)
    /\ \A p \in Procs : run[p].pc # "failed"

\* no step but the upsert of a run changes the store
OnlyUpsertsWrite ==
    store' # store =>
        \E p \in Procs : run'[p].written = run[p].written + 1

\* a run in which no entry survived has returned "No new logs." and has
\* written nothing
NothingNewNothingWritten ==
    \A p \in Procs :
        (run[p].pc = "done" /\ Len(run[p].newLogs) = 0) =>
            run[p].status = NoLogs /\ run[p].written = 0

\* C12  Empty window: a run in which no add_ele entry is fetched, or none
\* survives the stale filter, returns "No new logs." and writes nothing; the
\* store changes only by the upsert of a run.
EmptyWindow == []NothingNewNothingWritten /\ [][OnlyUpsertsWrite]_vars

\* a run over stored readings has fetched them again, kept none and returned
EmptyWindowWitness ==
    \E p \in Procs :
        /\ run[p].pc = "done" /\ run[p].status = NoLogs
        /\ Len(run[p].allAddEleLogs) > 0
        /\ store # <<>>

\* the kWh of the entries of S in the log, added up in the order of the log
RECURSIVE SumValues(_, _, _)
SumValues(log, S, n) ==
    IF n = 0 THEN numZero(0)
    ELSE IF log[n] \in S
    THEN numAdd(SumValues(log, S, n - 1), valueKwh(log[n]))
    ELSE SumValues(log, S, n - 1)

\* the valid readings of day k of a log
ReadingsOfDay(log, k) == { e \in ValidReadings(log) : DayOfEntry(e) = k }

LowOf(S) == { e \in S : isLowTariff(dateOf(correctedTimestamp(e.event_time))) }

\* the row a first run is to leave for day k of a log
ExpectedRow(log, d, k) ==
    DailyConsumption(k, d,
        SumValues(log, LowOf(ReadingsOfDay(log, k)), Len(log)),
        SumValues(log, ReadingsOfDay(log, k) \ LowOf(ReadingsOfDay(log, k)),
                  Len(log)),
        numMax({ correctedTimestamp(e.event_time) : e \in ReadingsOfDay(log, k) }))

\* the days of the valid readings of a log
DaysOf(log) == { DayOfEntry(e) : e \in ValidReadings(log) }

\* C13  First-run aggregation: the first run of a device leaves exactly one
\* row per day of the valid add_ele readings of the log, holding the sum of
\* the day's low-tariff values, the sum of its high-tariff values and the
\* greatest corrected timestamp of the day (a sum being the doubles added in
\* the order of the log); a Saturday 23:00 reading of 500 and a Wednesday
\* 14:00 reading of 300 leave two rows, low 0.3 and 0.5 kWh, high 0.
FirstRunAggregation ==
    (Returned("p1") /\ hist.runs["d1"] = 1) =>
        /\ Len(store) = Cardinality(DaysOf(remote["d1"]))
        /\ \A k \in DaysOf(remote["d1"]) :
              \E i \in 1..Len(store) :
                  store[i] = ExpectedRow(remote["d1"], "d1", k)
        /\ remote["d1"] = <<LogEntry("add_ele", SatHalfPastEleven, 500),
                            LogEntry("add_ele", Ms(WedMidday), 300)>>
              => store = <<Row(20250611, "d1", 300, 0, Ms(WedMidday)),
                           Row(20250614, "d1", 500, 0, SatHalfPastEleven)>>

\* the first run over two low-tariff readings of one day has returned: the
\* day's one row holds the sum of the two, 0.3 + 0.2 kWh
FirstRunAggregationWitness ==
    /\ Returned("p1") /\ hist.runs["d1"] = 1
    /\ remote["d1"] = <<LogEntry("add_ele", Ms(WedMidday), 300),
                        LogEntry("add_ele", WedHalfPastTwo, 200)>>
    /\ store = <<Row(20250611, "d1", 500, 0, WedHalfPastTwo)>>

----------------------------------------------------------------------------
(* The tariff of every hour of a week (SpecTariff) *)

\* Sunday 2025-06-15 00:00 in Skopje (UTC+2) and Sunday 2025-01-12 00:00 in
\* Skopje (UTC+1), as epoch hours
SummerSunday == DaysFromCivil(2025, 6, 15) * 24 - 2
WinterSunday == DaysFromCivil(2025, 1, 12) * 24 - 1

HoursOfWeek == 0..167

\* every hour of a summer week and of a winter week
TariffInstants ==
    { SummerSunday + i : i \in HoursOfWeek } \cup
    { WinterSunday + i : i \in HoursOfWeek }

\* one device whose log holds one reading, of any hour of the two weeks:
\* runs one at a time, normal or with forceStartTimestamp = 0, every call
\* succeeding
InitTariff ==
    /\ InitLocal
    /\ \E h \in TariffInstants :
          remote = [d \in Devices |->
                       IF d = "d1" THEN <<LogEntry("add_ele", Ms(h), 100)>>
                       ELSE <<>>]

NextTariff ==
    \/ \E f \in {<<>>, <<Num(0)>>} : processEnergyLogs("p1", "d1", f)
    \/ ReadWatermark("p1")
    \/ GetAccessToken("p1")
    \/ FirstPage("p1")
    \/ SelectBucket("p1")
    \/ UpsertBucket("p1")

SpecTariff == InitTariff /\ [][NextTariff]_vars

\* the rule set as one condition on the weekday (0 = Sunday) and the hour of
\* the reference timezone
LowRule(day, hour) ==
    \/ (day = 6 /\ hour >= 22)
    \/ day = 0
    \/ (day = 1 /\ hour < 7)
    \/ (hour >= 13 /\ hour < 15)
    \/ hour >= 22
    \/ hour < 7

\* the three rules evaluated in the opposite order
RulesReversed(hour, day) ==
    IF hour >= 22 \/ hour < 7
    THEN TRUE
    ELSE IF hour >= 13 /\ hour < 15
    THEN TRUE
    ELSE IF \/ (day = 6 /\ hour >= 22)
            \/ day = 0
            \/ (day = 1 /\ hour < 7)
    THEN TRUE
    ELSE FALSE

\* the hour of the week (0 = Sunday 00:00 in Skopje) of an instant of the
\* two weeks, by the position of the instant in its week
HourOfWeek(date) ==
    IF date.day * 24 + date.hour >= SummerSunday
    THEN date.day * 24 + date.hour - SummerSunday
    ELSE date.day * 24 + date.hour - WinterSunday

\* the instant of the summer week of a weekday and hour in Skopje
SummerAt(day, hour) == SummerSunday + day * 24 + hour

\* the instants the rules are stated on: Sat 23:00, Sun 12:00, Mon 06:59,
\* Wed 14:00 and Wed 23:00 are low, Mon 07:01 and Wed 10:00 are high (an
\* instant is classified by its hour: 06:59 by 6, 07:01 by 7)
StatedInstants ==
    /\ isLowTariff(DateAt(SummerAt(6, 23)))
    /\ isLowTariff(DateAt(SummerAt(0, 12)))
    /\ isLowTariff(DateAt(SummerAt(1, 6)))
    /\ ~isLowTariff(DateAt(SummerAt(1, 7)))
    /\ isLowTariff(DateAt(SummerAt(3, 14)))
    /\ isLowTariff(DateAt(SummerAt(3, 23)))
    /\ ~isLowTariff(DateAt(SummerAt(3, 10)))

\* C14  Tariff classifier: an instant is low tariff exactly when its weekday
\* and hour in Skopje satisfy the rule set, whichever order the three rules
\* are evaluated in and however often the instant is classified: the energy
\* of a reading is stored as low exactly then, as high otherwise.
TariffClassifier ==
    /\ StatedInstants
    /\ \A hour \in 0..24, day \in 0..6 :
          /\ isLowTariffAt(hour, day) = LowRule(day, hour)
          /\ isLowTariffAt(hour, day) = RulesReversed(hour, day)
    /\ \A e \in Range(remote["d1"]) :
          LET w == HourOfWeek(dateOf(e.event_time))
          IN  /\ isLowTariff(dateOf(e.event_time)) = LowRule(w \div 24, w % 24)
              /\ \A i \in 1..Len(store) :
                    /\ numPositive(store[i].lowTariffKwh)
                          <=> LowRule(w \div 24, w % 24)
                    /\ numPositive(store[i].highTariffKwh)
                          <=> ~LowRule(w \div 24, w % 24)

\* the Wednesday 14:00 reading has been stored twice over, by a run and a
\* forced run, as low-tariff energy
TariffClassifierWitness ==
    /\ Returned("p1")
    /\ hist.runs["d1"] = 2
    /\ store = <<Row(20250618, "d1", 200, 0, Ms(SummerAt(3, 14)))>>

----------------------------------------------------------------------------
(* getDeviceLogs called with any options against any server (SpecPages) *)

MaxServed == 3     \* entries the server hands out during one call

\* the options of a call: size, and maxFetches (<<>> when absent)
Sizes == {0, 2}
MaxFetchesChoices == { <<>>, <<0>>, <<-1>>, <<1>>, <<3>> }

\* maxFetchesRemaining at the start of the call
maxFetchesStart(maxFetches) ==
    IF maxFetches = <<>> THEN DefaultMaxFetches
    ELSE IF maxFetches[1] # 0 /\ maxFetches[1] >= 1 THEN maxFetches[1]
    ELSE DefaultMaxFetches

\* the reading a page of the server holds
ServedEntry == LogEntry("add_ele", Ms(WedMorning), 100)

\* no response yet
NoAnswer == [kind |-> "none", success |-> TRUE, hasLogs |-> FALSE,
             logs |-> <<>>, has_next |-> "absent", key |-> 0]

\* faulty variant: one nonce for every request of a call
generateNonceOnce(n) == 1

\* generateNonce: the n-th value crypto.randomUUID() gives during a call,
\* taken to differ from every value it gave before
generateNonce(n) == n

\* generateSignature: the HMAC-SHA256 of the client id, the token, t, the
\* nonce and the string to sign, taken to differ whenever one of them does
generateSignature(t, nonce, stringToSign, accessToken) ==
    [accessToken |-> accessToken, t |-> t, nonce |-> nonce,
     stringToSign |-> stringToSign]

\* an option left out is null, and null takes the same `!x` branch as 0
optionOrNull(option) == IF option = <<>> THEN numZero(0) ELSE option[1]

\* the locals of getDeviceLogs(accessToken, start, end, size, maxFetches)
\* before the first request, baseParams' start_time and end_time (window)
\* among them; requests, last, used, sent, signed and tokenRequests are
\* history: the page requests made, the last response, the tokens and the
\* <<start_time, end_time>> the page requests carried, the nonce and the
\* signature of each page request in turn, the token requests of the call
FetchState(accessToken, start, end, size, maxFetches) ==
    [pc |-> "glFirst", deviceId |-> "d1", accessToken |-> accessToken,
     start |-> start, end |-> end,
     window |-> resolveWindow(optionOrNull(start), optionOrNull(end)),
     sent |-> {}, signed |-> <<>>,
     used |-> {}, tokenRequests |-> 0, thrown |-> <<>>, size |-> size,
     maxFetches |-> maxFetches,
     maxFetchesRemaining |-> maxFetchesStart(maxFetches), fetches |-> 0,
     hasLogs |-> FALSE, logs |-> <<>>, has_next |-> FALSE,
     next_row_key |-> 0, nextRowKey |-> 0,
     returned |-> <<>>, requests |-> 0, last |-> NoAnswer]

\* what may come of the next request of r: the fetch rejects or its body
\* is not JSON ("rejected"), or the body says success or not and has no
\* result ("bare") or a result with or without logs, has_next and
\* next_row_key, the cursor being the one it gave last or a new one
Answers(r) ==
    { [NoAnswer EXCEPT !.kind = "rejected"] } \cup
    { [NoAnswer EXCEPT !.kind = "bare", !.success = s] : s \in BOOLEAN } \cup
    { [kind |-> "result", success |-> s, hasLogs |-> l[1], logs |-> l[2],
       has_next |-> h, key |-> k] :
        s \in BOOLEAN,
        l \in { <<FALSE, <<>>>>, <<TRUE, <<>>>> } \cup
              { <<TRUE, <<ServedEntry>>>> :
                  x \in { y \in {1} : Len(r.logs) < MaxServed } },
        h \in {"absent", "true", "false"},
        k \in {0, r.next_row_key, r.fetches + 1} }

\* faulty variant: the page loop without its fetch ceiling
keepFetchingNoCeiling(r) ==
    /\ r.hasLogs
    /\ r.has_next
    /\ (r.size = 0 \/ Len(r.logs) < r.size)
    /\ r.next_row_key # 0
    /\ r.nextRowKey # r.next_row_key

\* the condition of the page loop, for any size option
keepFetching(r) ==
    /\ r.maxFetchesRemaining > 0
    /\ r.hasLogs
    /\ r.has_next
    /\ (r.size = 0 \/ Len(r.logs) < r.size)
    /\ r.next_row_key # 0
    /\ r.nextRowKey # r.next_row_key

\* lines 265-333: the loop goes on, or getDeviceLogs returns with fetches
loopOrReturn(r) ==
    IF keepFetching(r) THEN [r EXCEPT !.pc = "glNext"]
    ELSE [r EXCEPT !.pc = "glReturned", !.returned = <<r.fetches>>]

\* lines 311-324: a result merged into the result of the first response
mergeAnswer(r, a) ==
    [r EXCEPT !.logs = IF a.hasLogs THEN @ \o a.logs ELSE @,
              !.has_next = IF a.has_next # "absent" THEN a.has_next = "true" ELSE @,
              !.next_row_key = IF a.key # 0 THEN a.key ELSE @,
              !.last = a]

\* a caller calls getDeviceLogs
getDeviceLogs(p, accessToken, start, end, size, maxFetches) ==
    /\ run[p].pc \in Ended \cup {"glReturned", "glThrown"}
    /\ hist.runs["d1"] < MaxRuns
    /\ run' = [run EXCEPT ![p] =
                  FetchState(accessToken, start, end, size, maxFetches)]
    /\ hist' = [hist EXCEPT !.runs["d1"] = @ + 1]
    /\ UNCHANGED <<store, remote>>

\* lines 219-262 and 330-333: the first request, signed, and its response
FirstAnswer(p, a) ==
    /\ run[p].pc = "glFirst"
    /\ LET r == [run[p] EXCEPT !.requests = 1, !.last = a,
                                !.used = @ \cup {run[p].accessToken},
                                !.sent = @ \cup {run[p].window},
                                !.signed =
                                   <<[nonce |-> generateNonce(1),
                                      sign |-> generateSignature(
                                         NowMs, generateNonce(1),
                                         <<"GET", run[p].window, 0>>,
                                         run[p].accessToken)]>>]
           c == [r EXCEPT !.maxFetchesRemaining = @ - 1, !.fetches = 1]
       IN  run' = [run EXCEPT ![p] =
               IF a.kind = "rejected" \/ ~a.success
               THEN [r EXCEPT !.pc = "glThrown"]
               ELSE IF a.kind = "bare" THEN [c EXCEPT !.pc = "glReturned"]
               ELSE loopOrReturn(
                       [c EXCEPT !.hasLogs = a.hasLogs, !.logs = a.logs,
                                 !.has_next = (a.has_next = "true"),
                                 !.next_row_key = a.key])]
    /\ UNCHANGED <<store, remote, hist>>

\* lines 273-327: a further request, signed, and its response; success is
\* not looked at: a body without result ends the loop, a result is merged
NextAnswer(p, a) ==
    /\ run[p].pc = "glNext"
    /\ LET c == [run[p] EXCEPT !.maxFetchesRemaining = @ - 1,
                               !.fetches = @ + 1,
                               !.nextRowKey = run[p].next_row_key,
                               !.requests = @ + 1, !.last = a,
                               !.used = @ \cup {run[p].accessToken},
                               !.sent = @ \cup {run[p].window},
                               !.signed =
                                  Append(@,
                                     [nonce |-> generateNonce(Len(@) + 1),
                                      sign |-> generateSignature(
                                         NowMs, generateNonce(Len(@) + 1),
                                         <<"GET", run[p].window,
                                           run[p].next_row_key>>,
                                         run[p].accessToken)])]
       IN  run' = [run EXCEPT ![p] =
               IF a.kind = "rejected" THEN [c EXCEPT !.pc = "glThrown"]
               ELSE IF a.kind = "bare"
               THEN [c EXCEPT !.pc = "glReturned", !.returned = <<c.fetches>>]
               ELSE loopOrReturn(mergeAnswer(c, a))]
    /\ UNCHANGED <<store, remote, hist>>

InitPages ==
    /\ InitLocal
    /\ remote = [d \in Devices |-> <<>>]

NextPages ==
    \/ /\ run["p1"].pc = "idle"
       /\ \E size \in Sizes, mf \in MaxFetchesChoices :
             getDeviceLogs("p1", 1, <<>>, <<>>, size, mf)
    \/ \E a \in Answers(run["p1"]) : FirstAnswer("p1", a)
    \/ \E a \in Answers(run["p1"]) : NextAnswer("p1", a)

SpecPages == InitPages /\ [][NextPages]_vars

\* a call of getDeviceLogs is in slot p
Fetching(p) == run[p].pc \in {"glFirst", "glNext", "glReturned", "glThrown"}

\* the ceiling on the page requests of a call
FetchCeiling(maxFetches) ==
    IF maxFetches = <<>> THEN 50
    ELSE IF maxFetches[1] < 1 THEN 50 ELSE maxFetches[1]

\* the requests of a call stay within the ceiling, and a further one is
\* due only below it
WithinCeiling ==
    \A p \in Procs : Fetching(p) =>
        /\ run[p].requests <= FetchCeiling(run[p].maxFetches)
        /\ run[p].pc = "glNext" =>
              run[p].requests < FetchCeiling(run[p].maxFetches)

\* slot p makes a further page request in this step
FurtherRequest(p) ==
    /\ run[p].pc = "glNext"
    /\ run'[p].requests = run[p].requests + 1

\* the entries so far are fewer than the size asked for, if any was
BelowSize(p) == run[p].size = 0 \/ Len(run[p].logs) < run[p].size

\* the returned fetches is the number of page requests made
FetchesIsRequests ==
    \A p \in Procs : (Fetching(p) /\ run[p].pc = "glReturned") =>
        run[p].returned = <<run[p].requests>>

\* a further request is made only after a response with has_next true and a
\* next_row_key
OnlyAfterHasNext ==
    \A p \in Procs : FurtherRequest(p) =>
        /\ run[p].last.has_next = "true"
        /\ run[p].last.key # 0
        /\ BelowSize(p)

\* C15 (as stated)  Bounded pagination: at most maxFetches requests (50 when
\* absent or below 1); a further page is requested only while the last
\* response has has_next true and a next_row_key and the entries are fewer
\* than the size; the returned fetches is the number of requests made.
BoundedPaginationStated ==
    /\ [](WithinCeiling /\ FetchesIsRequests)
    /\ [][OnlyAfterHasNext]_vars

\* the returned fetches is the number of page requests made, when the first
\* response carried a result
FetchesIsRequestsOfResult ==
    \A p \in Procs : (Fetching(p) /\ run[p].pc = "glReturned") =>
        \/ run[p].returned = <<run[p].requests>>
        \/ /\ run[p].returned = <<>>
           /\ run[p].requests = 1
           /\ run[p].last.kind = "bare"

\* a further request is made only while the has_next and the next_row_key
\* that the responses so far gave last are true and a cursor not yet used
OnlyWhileMore ==
    \A p \in Procs : FurtherRequest(p) =>
        /\ run[p].has_next
        /\ run[p].next_row_key # 0
        /\ run[p].next_row_key # run[p].nextRowKey
        /\ run[p].hasLogs
        /\ BelowSize(p)

\* C15  Bounded pagination: at most maxFetches requests (50 when absent or
\* below 1); a further page is requested only while the has_next given last
\* by any response is true, the next_row_key given last is a cursor not just
\* used, and the entries are fewer than the size; the returned fetches is the
\* number of requests made whenever the first response carried a result.
BoundedPagination ==
    /\ [](WithinCeiling /\ FetchesIsRequestsOfResult)
    /\ [][OnlyWhileMore]_vars

\* a call whose maxFetches was 0 has made 50 requests and returned while the
\* server still offered more
BoundedPaginationWitness ==
    \E p \in Procs :
        /\ Fetching(p) /\ run[p].pc = "glReturned"
        /\ run[p].maxFetches = <<0>>
        /\ run[p].requests = 50
        /\ run[p].returned = <<50>>
        /\ keepFetchingNoCeiling(run[p])

----------------------------------------------------------------------------
(* Failures and the store (Spec) *)

\* the day entries of a run that the merge loop has not reached yet are
\* those of `plan` after the first `written`
RestOfPlan(r, plan) ==
    /\ r.written < Len(plan)
    /\ r.sortedEntries = SubSeq(plan, r.written + 1, Len(plan))
    /\ \A i \in 1..(Len(plan) - 1) : plan[i].dateKey < plan[i + 1].dateKey

\* the merge loop of a run goes through the day entries in order of date,
\* one row written per entry passed
InDateOrder ==
    \A p \in Procs : run[p].pc \in {"select", "write"} =>
        RestOfPlan(run[p], sortedEntries(dailyAggregates(run[p].newLogs)))

\* a run that returned "completed successfully" has written every one of
\* its day entries
NoSilentSkip ==
    \A p \in Procs :
        (run[p].pc = "done" /\ run[p].status = Completed) =>
            run[p].written = Len(sortedEntries(dailyAggregates(run[p].newLogs)))

\* the lookup or the write of a day entry fails in this step
UpsertFails(p) ==
    /\ run[p].pc \in {"select", "write"}
    /\ run'[p].pc = "failed"

\* the failure of a lookup or write ends the run with every row as it was,
\* and nothing is left for the run to write
AbortKeepsRows ==
    \A p \in Procs : UpsertFails(p) =>
        /\ store' = store
        /\ run'[p].written = run[p].written
        /\ run'[p].sortedEntries = <<>>

\* the store changes only in a step of the merge loop that goes on or returns
OnlyTheLoopWrites ==
    store' # store =>
        \E p \in Procs :
            /\ run[p].pc = "write"
            /\ run'[p].pc \in {"select", "done"}
            /\ Len(run'[p].sortedEntries) < Len(run[p].sortedEntries)

\* C16  Upsert abort: when the lookup, insert or update of a day entry fails,
\* the run ends with the error, the rows it wrote for earlier days stay as
\* written, and no row of a later day is written by it: the loop takes the
\* days in order, only the loop writes, and a run that reports success has
\* written every day.
UpsertAbort ==
    /\ [](InDateOrder /\ NoSilentSkip)
    /\ [][AbortKeepsRows /\ OnlyTheLoopWrites]_vars

\* a run has failed after writing the row of Wednesday, with a reading of
\* Thursday in its window that no row holds
UpsertAbortWitness ==
    /\ run["p1"].pc = "failed" /\ run["p1"].written = 1
    /\ ~run["p1"].pageFailed
    /\ run["p1"].force = <<>> /\ hist.runs["d1"] = 1
    /\ Len(store) = 1 /\ store[1].date = 20250611
    /\ \E e \in Range(remote["d1"]) :
          /\ e.code = "add_ele"
          /\ DayOfEntry(e) = 20250612

\* the token request or the first page request of slot p fails in this step
RemoteFails(p) ==
    \/ /\ run[p].pc = "token"
       /\ run'[p].pc \notin {"token", "firstPage", "cancelled"}
    \/ /\ run[p].pc = "firstPage"
       /\ run'[p].pageFailed

\* a failed token or first page request ends the run with the error, the
\* store as it was and nothing written
RemoteFailureEndsRun ==
    \A p \in Procs : RemoteFails(p) =>
        /\ run'[p].pc = "failed"
        /\ run'[p].written = 0
        /\ store' = store

\* a run that has not got its logs yet leaves the store alone
NoWriteBeforeLogs ==
    \A p \in Procs :
        run[p].pc \in {"watermark", "token", "firstPage", "nextPage"} =>
            store' = store /\ run[p].written = 0

\* a failed run does nothing more: what follows in its slot is a new call
NoRetry ==
    \A p \in Procs : (run[p].pc = "failed" /\ run'[p] # run[p]) =>
        /\ run'[p].pc \in {"watermark", "token"}
        /\ hist'.runs[run'[p].deviceId] = hist.runs[run'[p].deviceId] + 1
        /\ store' = store

\* C17  Remote failure is fatal and write-free: when the token request or
\* the first page request fails, the run ends with the error and makes no
\* further request, and no row is inserted or updated: the store is as it
\* was when the run was called.
RemoteFailure ==
    [][RemoteFailureEndsRun /\ NoWriteBeforeLogs /\ NoRetry]_vars

\* the second run of a device has failed at its first page request, over
\* the rows the first run left
RemoteFailureWitness ==
    /\ run["p1"].pc = "failed" /\ run["p1"].pageFailed
    /\ run["p1"].fetches = 0
    /\ run["p1"].written = 0
    /\ hist.runs["d1"] = 2
    /\ store # <<>>
    /\ \E e \in Range(remote["d1"]) :
          e.code = "add_ele" /\ timesMerged(hist, "d1", e) = 0

\* no two rows are of the same day of the same device
OneRowPerDay ==
    \A i, j \in 1..Len(store) :
        (store[i].date = store[j].date /\ store[i].deviceId = store[j].deviceId)
            => i = j

\* every row stays in the table, the row of the day and device it was
RowsStay ==
    /\ Len(store') >= Len(store)
    /\ \A i \in 1..Len(store) :
          /\ store'[i].date = store[i].date
          /\ store'[i].deviceId = store[i].deviceId

\* C18  Bucket uniqueness: after any runs of a device that do not overlap,
\* in any mode and however they ended, the table holds at most one row per
\* day and device, and no step of a run removes a row.
BucketUniqueness == []OneRowPerDay /\ [][RowsStay]_vars

\* a forced second run has written again the two rows the first run left,
\* and the table still holds two rows
BucketUniquenessWitness ==
    /\ run["p1"].pc = "done" /\ run["p1"].force = <<Num(0)>>
    /\ hist.runs["d1"] = 2
    /\ run["p1"].written = 2 /\ run["p1"].readded
    /\ Len(store) = 2

----------------------------------------------------------------------------
(* The forced mode (SpecBatch) *)

\* a run with forceStartTimestamp = 0 keeps every add_ele entry it fetched
ForcedKeepsAll ==
    \A p \in Procs :
        (run[p].force = <<Num(0)>> /\ run[p].pc \in PastFilter) =>
            /\ run[p].allAddEleLogs = addEleLogs(remote[run[p].deviceId])
            /\ run[p].newLogs = run[p].allAddEleLogs

\* what the first n writing runs of d1 have added into a row of the readings
\* S of its day: the sum each run made of its readings of S, in the order of
\* the log, added run after run
RECURSIVE SumMerged(_, _, _)
SumMerged(log, S, n) ==
    IF n = 0 THEN numZero(0)
    ELSE numAdd(SumMerged(log, S, n - 1),
                SumValues(log, S \cap hist.order["d1"][n], Len(log)))

\* when a run with forceStartTimestamp = 0 has returned, it has added every
\* valid reading into its row, for the second time at least unless it is
\* the first run, and the row of each day holds each reading's energy as
\* many times as the reading was added
ForcedAddsAgain ==
    (Returned("p1") /\ run["p1"].force = <<Num(0)>>) =>
        /\ \A e \in ValidReadings(remote["d1"]) :
              /\ run["p1"].written > 0
              /\ e \in hist.order["d1"][Len(hist.order["d1"])]
              /\ hist.runs["d1"] >= 2 => timesMerged(hist, "d1", e) >= 2
        /\ \A k \in DaysOf(remote["d1"]) :
              DayTotal(store, "d1", k) =
                  << SumMerged(remote["d1"],
                               LowOf(ReadingsOfDay(remote["d1"], k)),
                               Len(hist.order["d1"])),
                     SumMerged(remote["d1"],
                               ReadingsOfDay(remote["d1"], k)
                                 \ LowOf(ReadingsOfDay(remote["d1"], k)),
                               Len(hist.order["d1"])) >>

\* C20  Forced reprocess bypasses de-duplication: a run with
\* forceStartTimestamp = 0 discards no entry by the stale filter and adds
\* every fetched add_ele entry of a year in range into its row, also when
\* the entry is not after the stored watermark: over readings already
\* counted it counts them again.
ForcedReprocess == ForcedKeepsAll /\ ForcedAddsAgain

\* a forced run after a normal run over the same log has returned: a reading
\* not after the watermark it read is in its row twice
ForcedReprocessWitness ==
    /\ Returned("p1") /\ run["p1"].force = <<Num(0)>>
    /\ hist.runs["d1"] = 2
    /\ run["p1"].wmRead /\ numPositive(run["p1"].lastProcessedTimestamp)
    /\ \E e \in ValidReadings(remote["d1"]) :
          /\ numLeq(correctedTimestamp(e.event_time),
                    run["p1"].lastProcessedTimestamp)
          /\ timesMerged(hist, "d1", e) = 2

----------------------------------------------------------------------------
(* A log at and beyond one run's page ceiling (SpecLong) *)

\* the entries one run can fetch: DefaultMaxFetches pages
CeilingEntries == DefaultMaxFetches * PageLen

\* n hourly readings up to an hour ago, served newest first, all in
\* milliseconds or all in seconds
HourlyLog(n, inMs) ==
    [i \in 1..n |->
        LogEntry("add_ele",
                 IF inMs THEN Ms(NowHour - i) ELSE Sec(NowHour - i), 100)]

\* one device whose fixed log just fits one run's page ceiling or exceeds it
\* by one entry: normal-mode runs one at a time, every call succeeding
InitLong ==
    /\ InitLocal
    /\ \E n \in {CeilingEntries, CeilingEntries + 1}, inMs \in BOOLEAN :
          remote = [d \in Devices |->
                       IF d = "d1" THEN HourlyLog(n, inMs) ELSE <<>>]

NextLong ==
    \/ processEnergyLogs("p1", "d1", <<>>)
    \/ GoodSteps("p1")

SpecLong == InitLong /\ [][NextLong]_vars

\* C19  Eventual exactly-once: under repeated normal-mode runs of one device
\* over a fixed log, every call succeeding, every valid add_ele reading ends
\* up in the stored totals exactly once: when a run finds nothing new, so
\* that the runs after it find nothing either, no reading has been left out.
EventualExactlyOnce ==
    (Returned("p1") /\ run["p1"].clean /\ run["p1"].status = NoLogs) =>
        \A e \in ValidReadings(remote["d1"]) : timesMerged(hist, "d1", e) = 1

----------------------------------------------------------------------------
(* Two runs over a fixed log, served inside the window or not (SpecIdem) *)

\* n hourly readings up to an hour ago, in milliseconds, served oldest first
HourlyLogAscending(n) ==
    [i \in 1..n |-> LogEntry("add_ele", Ms(NowHour - (n + 1 - i)), 100)]

\* the fixed logs: any short log, and hourly logs that just fit one run's
\* page ceiling or exceed it by one entry, oldest first or newest first
FixedLogs ==
    InjectiveLogs(EntryPool, MaxLog)
        \cup { HourlyLogAscending(n) : n \in {CeilingEntries, CeilingEntries + 1} }
        \cup { HourlyLog(n, TRUE) : n \in {CeilingEntries, CeilingEntries + 1} }

\* one device over a fixed log, held by a service that keeps to the window
\* of a request or by one that does not: normal-mode runs one at a time,
\* every call succeeding
InitIdem ==
    /\ store = <<>>
    /\ run = [p \in Procs |-> EntryState("d1", <<>>)]
    /\ \E windowed \in BOOLEAN :
          hist = [NoHistory EXCEPT !.windowed = windowed]
    /\ \E log \in FixedLogs :
          remote = [d \in Devices |-> IF d = "d1" THEN log ELSE <<>>]

NextIdem ==
    \/ processEnergyLogs("p1", "d1", <<>>)
    \/ GoodSteps("p1")

SpecIdem == InitIdem /\ [][NextIdem]_vars

\* C1 (as stated)  Idempotence: when a normal-mode run in which every call
\* succeeded follows such a run of the same device over the same remote log,
\* the stored low and high totals of every day of the device are those left
\* by the first of the two runs.
Idempotence ==
    \A p \in Procs :
        (run[p].pc = "done" /\ run[p].clean /\ run[p].prev # <<>>)
            => TotalsOf(store, run[p].deviceId) = run[p].prev[1]

\* no reading of a log has been added into a stored row more than once
CountedOnceAtMost ==
    \A d \in Devices : \A e \in Range(remote[d]) :
        timesMerged(hist, d, e) <= 1

\* C1  Idempotence: when a normal-mode run in which every call succeeded
\* follows such a run of the same device over the same remote log, and the
\* fetch of the first was not stopped by the page ceiling with more to
\* fetch, the stored low and high totals of every day of the device are
\* those left by the first of the two runs; stopped or not, no reading is
\* counted twice.
IdempotenceBelowCeiling ==
    /\ \A p \in Procs :
          (run[p].pc = "done" /\ run[p].clean /\ run[p].prev # <<>>
              /\ ~run[p].prevCut)
              => TotalsOf(store, run[p].deviceId) = run[p].prev[1]
    /\ CountedOnceAtMost

\* a second clean run has ended whose service kept to the window: it was
\* given again a reading that the first run, not stopped by the ceiling, had
\* merged, and the totals are those of the first run
IdempotenceBelowCeilingWitness ==
    \E p \in Procs :
        /\ run[p].pc = "done" /\ run[p].clean /\ run[p].prev # <<>>
        /\ ~run[p].prevCut /\ hist.windowed
        /\ DOMAIN run[p].prev[1] # {}
        /\ \E e \in Range(run[p].allAddEleLogs) :
               timesMerged(hist, run[p].deviceId, e) = 1
        /\ TotalsOf(store, run[p].deviceId) = run[p].prev[1]

----------------------------------------------------------------------------
(* getDeviceLogConvenience: a token, then the pages (SpecAuth) *)

\* what the server may answer to a token request: success with a token no
\* earlier call was given, or a refusal
TokenAnswers ==
    { [success |-> TRUE, access_token |-> hist.runs["d1"]],
      [success |-> FALSE, access_token |-> 0] }

\* a caller calls getDeviceLogConvenience: the token request is under way
getDeviceLogConvenience(p, size, maxFetches) ==
    /\ run[p].pc \in Ended \cup {"glReturned", "glThrown"}
    /\ hist.runs["d1"] < MaxRuns
    /\ run' = [run EXCEPT ![p] =
                  [FetchState(0, <<>>, <<>>, size, maxFetches) EXCEPT
                      !.pc = "cvToken", !.tokenRequests = 1]]
    /\ hist' = [hist EXCEPT !.runs["d1"] = @ + 1]
    /\ UNCHANGED <<store, remote>>

\* faulty variant: the token response is used whatever its success flag
TokenAnswerUnchecked(p, a) ==
    /\ run[p].pc = "cvToken"
    /\ run' = [run EXCEPT ![p] =
                  [@ EXCEPT !.pc = "glFirst", !.accessToken = a.access_token]]
    /\ UNCHANGED <<store, remote, hist>>

\* getAccessToken lines 134-143 and getDeviceLogConvenience lines 349-355:
\* the token response; on success getDeviceLogs is called with the token
TokenAnswer(p, a) ==
    /\ run[p].pc = "cvToken"
    /\ run' = [run EXCEPT ![p] =
                  IF a.success
                  THEN [@ EXCEPT !.pc = "glFirst",
                                 !.accessToken = a.access_token]
                  ELSE [@ EXCEPT !.pc = "glThrown",
                                 !.thrown = <<"Failed to get access token: ", a>>]]
    /\ UNCHANGED <<store, remote, hist>>

\* no call yet
InitAuth == InitPages

\* calls with size 2 and maxFetches 3, one at a time, against any server
NextAuth ==
    \/ getDeviceLogConvenience("p1", 2, <<3>>)
    \/ \E a \in TokenAnswers : TokenAnswer("p1", a)
    \/ \E a \in Answers(run["p1"]) : FirstAnswer("p1", a)
    \/ \E a \in Answers(run["p1"]) : NextAnswer("p1", a)

SpecAuth == InitAuth /\ [][NextAuth]_vars

\* C21  Re-authentication per call: a call of getDeviceLogConvenience makes
\* one token request, before any page request; every page request of the
\* call carries the token that request was given, which is not the token of
\* an earlier call; and when the token response has success false the call
\* throws an error holding the response and makes no page request.
ReAuthentication ==
    \A p \in Procs : (run[p].pc = "cvToken" \/ Fetching(p)) =>
        /\ run[p].tokenRequests = 1
        /\ run[p].pc = "cvToken" => run[p].requests = 0 /\ run[p].used = {}
        /\ run[p].requests > 0 =>
              /\ run[p].used = {run[p].accessToken}
              /\ run[p].accessToken = hist.runs["d1"]
        /\ (run[p].pc = "glThrown" /\ run[p].requests = 0) =>
              /\ run[p].thrown = <<"Failed to get access token: ",
                                   [success |-> FALSE, access_token |-> 0]>>
              /\ run[p].accessToken = 0

\* the second call has returned after several page requests, all carrying
\* the token of the second call
ReAuthenticationWitness ==
    \E p \in Procs :
        /\ Fetching(p) /\ run[p].pc = "glReturned"
        /\ hist.runs["d1"] = 2
        /\ run[p].requests = 3
        /\ run[p].used = {2}

----------------------------------------------------------------------------
(* The stale filter and the merge (Spec) *)

\* C22  Strict stale filter: in a normal-mode run an entry is kept for the
\* merge exactly when its corrected timestamp is greater than the watermark
\* the run read: one equal to the watermark is dropped, one greater is kept.
StrictStaleFilter ==
    \A p \in Procs :
        (run[p].force = <<>> /\ run[p].pc \in PastFilter) =>
            \A e \in Range(run[p].allAddEleLogs) :
                e \in Range(run[p].newLogs)
                    <=> numLess(run[p].lastProcessedTimestamp,
                                correctedTimestamp(e.event_time))

\* the row of day k of device d after the readings src of the day, summed
\* in the order of log, are merged into it: their low and high sums added to
\* the totals of old, and the greatest of their corrected timestamps
MergedRow(old, k, d, log, src) ==
    DailyConsumption(k, d,
        numAdd(old.lowTariffKwh, SumValues(log, LowOf(src), Len(log))),
        numAdd(old.highTariffKwh,
               SumValues(log, src \ LowOf(src), Len(log))),
        numMax({ correctedTimestamp(x.event_time) : x \in src }))

\* st2 is st with the day entry e of device d merged: into the one row
\* among ids, the rows of that day and device, or as a new row
MergedAs(st, st2, e, d, log, ids) ==
    IF ids = {}
    THEN st2 = Append(st, MergedRow(NoRow, e.dateKey, d, log, e.data.src))
    ELSE \E id \in ids :
            /\ ids = {id}
            /\ st2 = [st EXCEPT ![id] =
                         MergedRow(st[id], e.dateKey, d, log, e.data.src)]

\* each write of the merge loop merges the first of the remaining day entries
AdditiveMergeStep ==
    \A p \in Procs :
        run'[p].written = run[p].written + 1 =>
            MergedAs(store, store', Head(run[p].sortedEntries),
                     run[p].deviceId, run[p].newLogs,
                     RowsOf(store, run[p].deviceId,
                            Head(run[p].sortedEntries).dateKey))

\* C23  Additive merge: for each day entry of a run, an existing row of the
\* day and device gets the entry's low and high sums added to its totals and
\* the entry's greatest corrected timestamp as lastProcessedTimestamp; when
\* there is no such row, one is inserted with the sums and that timestamp.
AdditiveMerge == [][AdditiveMergeStep]_vars

\* two runs have written the one row of the table, the second adding
\* readings the first had not seen
AdditiveMergeWitness ==
    /\ run["p1"].pc = "done" /\ run["p1"].written = 1
    /\ ~run["p1"].readded
    /\ Len(hist.order["d1"]) = 2
    /\ Len(store) = 1
    /\ numPositive(store[1].lowTariffKwh)
    /\ numPositive(store[1].highTariffKwh)

\* the readings the run in slot p has written into rows so far
WrittenByRun(p) ==
    IF run[p].written = 0 THEN {}
    ELSE hist.order[run[p].deviceId][Len(hist.order[run[p].deviceId])]

\* the day written in a step of the merge loop is later than every day the
\* run has written, earlier than every day it has yet to write, and no
\* reading of an earlier day is still unwritten
WritesAscend ==
    \A p \in Procs :
        run'[p].written = run[p].written + 1 =>
            /\ \A x \in WrittenByRun(p) :
                  DayOfEntry(x) < Head(run[p].sortedEntries).dateKey
            /\ \A i \in 2..Len(run[p].sortedEntries) :
                  run[p].sortedEntries[i].dateKey
                      > Head(run[p].sortedEntries).dateKey
            /\ \A x \in Range(run[p].newLogs) :
                  DayOfEntry(x) < Head(run[p].sortedEntries).dateKey
                      => x \in WrittenByRun(p)

\* C24  Merge order: within a run the day entries are written in strictly
\* ascending order of date, whatever the order of the entries in the log:
\* the row of a day is written only after the rows of all earlier days of
\* the run.
MergeOrder == [][WritesAscend]_vars

\* a run over a log that holds Thursday's reading before Wednesday's has
\* written Wednesday's row first
MergeOrderWitness ==
    /\ run["p1"].pc = "done" /\ run["p1"].written = 2
    /\ hist.runs["d1"] = 1
    /\ Len(remote["d1"]) = 2
    /\ DayOfEntry(remote["d1"][1]) = 20250612
    /\ DayOfEntry(remote["d1"][2]) = 20250611
    /\ Len(store) = 2
    /\ store[1].date = 20250611 /\ store[2].date = 20250612

----------------------------------------------------------------------------
(* The watermark (Spec) *)

\* C25  Watermark covers stored energy: the watermark of a device, the
\* greatest lastProcessedTimestamp of its rows, is never below the corrected
\* timestamp of a reading whose energy is in its rows.
WatermarkCovers ==
    \A d \in Devices :
        \A x \in DOMAIN hist.merged[d] :
            numLeq(correctedTimestamp(x.event_time), maxLastTs(store, d))

\* the lastProcessedTimestamp of every row is the corrected timestamp of a
\* reading of the row's day that was merged into the row
TimestampOfOwnDay ==
    \A i \in 1..Len(store) :
        \E x \in DOMAIN hist.merged[store[i].deviceId] :
            /\ correctedTimestamp(x.event_time) = store[i].lastProcessedTimestamp
            /\ DayOfEntry(x) = store[i].date

\* a row's lastProcessedTimestamp changes only in the write of a day entry
\* of the row's own day, to the timestamp of a reading of that entry
ChangedByOwnDay ==
    \A i \in 1..Len(store) :
        store'[i].lastProcessedTimestamp # store[i].lastProcessedTimestamp =>
            \E p \in Procs :
                /\ run'[p].written = run[p].written + 1
                /\ Head(run[p].sortedEntries).dateKey = store[i].date
                /\ \E x \in Head(run[p].sortedEntries).data.src :
                      /\ correctedTimestamp(x.event_time)
                            = store'[i].lastProcessedTimestamp
                      /\ DayOfEntry(x) = store[i].date

\* C26  Per-day watermark: the lastProcessedTimestamp of every row is the
\* corrected timestamp of a reading whose date in Skopje is the row's date,
\* and a reading of one day never changes the lastProcessedTimestamp of the
\* row of another day.
PerDayWatermark == []TimestampOfOwnDay /\ [][ChangedByOwnDay]_vars

\* the second run of a device has written Wednesday's row, whose timestamp
\* is a Wednesday one, beside Thursday's row with its later timestamp
PerDayWatermarkWitness ==
    /\ run["p1"].pc = "done" /\ run["p1"].written = 1
    /\ hist.runs["d1"] = 2
    /\ Len(store) = 2
    /\ store[1].date = 20250612 /\ store[2].date = 20250611
    /\ numLess(store[2].lastProcessedTimestamp,
               store[1].lastProcessedTimestamp)

\* C27  Device watermark monotonicity: the watermark of a device, the
\* greatest lastProcessedTimestamp of its rows, never decreases, whatever
\* the modes of the runs and however they end.
WatermarkMonotone ==
    [][\A d \in Devices :
            numLeq(maxLastTs(store, d), maxLastTs(store', d))]_vars

\* the watermark query of slot p ends in this step
WatermarkAnswered(p) == run[p].pc = "watermark" /\ run'[p].pc # "watermark"

\* when the watermark query finds no row of the device or throws, the run
\* goes on, to ask for the last 7 days
FallsBack ==
    \A p \in Procs :
        (/\ WatermarkAnswered(p)
         /\ run'[p].pc # "cancelled"
         /\ DatesOf(store, run[p].deviceId) = {} \/ run'[p].wmFailed) =>
            /\ run'[p].pc = "token"
            /\ run'[p].start = Num(-7)

\* a run without forceStartTimestamp that fell back has asked, if it has
\* asked, for the window from 7 days before now to now
SevenDays ==
    \A p \in Procs :
        (run[p].force = <<>> /\ run[p].wmRead /\ run[p].start = Num(-7)) =>
            /\ run[p].pc \in {"nextPage"} \cup PastFilter
                  => run[p].window # NoWindow
            /\ run[p].window # NoWindow
                  => run[p].window = <<Ms(NowHour - 7 * 24), NowMs>>

\* C28  First-run fallback: a run without forceStartTimestamp whose
\* watermark query finds no row of the device, or throws, does not end by
\* that; it asks the remote service for the window that starts 7 days before
\* now and ends now.
FirstRunFallback == []SevenDays /\ [][FallsBack]_vars

\* a run whose watermark query threw although the device has rows has
\* returned, having asked for the last 7 days
FirstRunFallbackWitness ==
    /\ run["p1"].pc = "done" /\ run["p1"].force = <<>>
    /\ run["p1"].wmFailed
    /\ hist.runs["d1"] = 2 /\ store # <<>>
    /\ run["p1"].window = <<Ms(NowHour - 7 * 24), NowMs>>

----------------------------------------------------------------------------
(* Readings between whole seconds (SpecFine) *)

\* readings whose millisecond timestamps are not whole seconds, one of them
\* some hours ahead of now
FinePool ==
    { LogEntry("add_ele", numAdd(Ms(WedMorning), Num(1)), 100),
      LogEntry("add_ele", numAdd(Ms(WedMorning), Num(999)), 200),
      LogEntry("add_ele", numAdd(Ms(WedMidday), Num(500)), 400),
      LogEntry("add_ele", numAdd(Ms(NowHour + 5), Num(250)), 800) }

\* one device reporting such readings between normal-mode runs in which
\* every call succeeds
NextFine ==
    \/ \E e \in FinePool : DeviceReports("d1", e)
    \/ processEnergyLogs("p1", "d1", <<>>)
    \/ GoodSteps("p1")

SpecFine == Init /\ [][NextFine]_vars

\* slot p holds a normal-mode run that read a watermark and has asked for
\* its window
AskedFromWatermark(p) ==
    /\ run[p].force = <<>> /\ run[p].wmRead
    /\ numPositive(run[p].lastProcessedTimestamp)
    /\ run[p].window # NoWindow

\* C29  No gap at the window start: in a normal-mode run with a stored
\* watermark W > 0 the start of the window asked for is at most W, less than
\* a second below it unless W is ahead of now, so that every reading with a
\* corrected timestamp above W and not after now is inside the window.
NoGapAtStart ==
    \A p \in Procs : AskedFromWatermark(p) =>
        /\ numLeq(run[p].window[1], run[p].lastProcessedTimestamp)
        /\ numLeq(run[p].lastProcessedTimestamp, NowMs)
              => numLess(numSub(run[p].lastProcessedTimestamp,
                                run[p].window[1]), Num(1000))
        /\ \A e \in Range(remote[run[p].deviceId]) :
              (/\ numLess(run[p].lastProcessedTimestamp,
                          correctedTimestamp(e.event_time))
               /\ numLeq(correctedTimestamp(e.event_time), NowMs)) =>
                  /\ numLeq(run[p].window[1],
                            correctedTimestamp(e.event_time))
                  /\ numLeq(correctedTimestamp(e.event_time),
                            run[p].window[2])

\* a run has asked for the window from just below a watermark that is not a
\* whole second, with a later reading waiting in the log
NoGapAtStartWitness ==
    \E p \in Procs :
        /\ AskedFromWatermark(p)
        /\ run[p].lastProcessedTimestamp = numAdd(Ms(WedMorning), Num(999))
        /\ run[p].window[1] = Ms(WedMorning)
        /\ \E e \in Range(remote[run[p].deviceId]) :
              e.event_time = numAdd(Ms(WedMidday), Num(500))

(* The window of a call, for every kind of start and end (SpecWindow) *)

\* start and end options of every kind: left out, 0, day offsets, absolute
\* seconds (past and future), absolute milliseconds (past, future, and the
\* smallest value taken as milliseconds)
WindowOptions ==
    { <<>>, <<Num(0)>>, <<Num(-1)>>, <<Num(-7)>>,
      <<Sec(WedMorning)>>, <<Sec(NowHour + 5)>>,
      <<Ms(WedMorning)>>, <<Ms(NowHour + 5)>>, <<MillisCutoff>> }

\* one call of getDeviceLogs with any start and end; the server answers
NextWindow ==
    \/ /\ run["p1"].pc = "idle"
       /\ \E start \in WindowOptions, end \in WindowOptions :
             getDeviceLogs("p1", 1, start, end, 0, <<2>>)
    \/ \E a \in Answers(run["p1"]) : FirstAnswer("p1", a)
    \/ \E a \in Answers(run["p1"]) : NextAnswer("p1", a)

SpecWindow == InitPages /\ [][NextWindow]_vars

\* the milliseconds a day offset or an absolute time v stands for
StandsFor(v) ==
    IF numLess(v, Num(0)) THEN numAdd(NowMs, numMulInt(v, 86400000))
    ELSE IF numLess(v, MillisCutoff) THEN numMulInt(v, 1000)
    ELSE v

\* the milliseconds an end option stands for
EndStandsFor(end) ==
    IF end \in {<<>>, <<Num(0)>>} THEN NowMs ELSE StandsFor(end[1])

\* two times in order
InOrder(a, b) == IF numLeq(a, b) THEN <<a, b>> ELSE <<b, a>>

\* a request's <<start_time, end_time>> is what the options stand for
CarriesWindow(w, start, end) ==
    /\ numLeq(w[1], w[2])
    /\ IF start \in {<<>>, <<Num(0)>>}
       THEN EndStandsFor(end) \in {w[1], w[2]}
       ELSE w = InOrder(StandsFor(start[1]), EndStandsFor(end))

\* C30: whatever the start and end options of a getDeviceLogs call (left
\* out, 0, a negative day offset, absolute seconds, absolute milliseconds),
\* every page request of the call carries start_time <= end_time in
\* milliseconds, where an end left out or 0 is now, a negative v is now plus
\* v days, a positive value below 10^10 is seconds scaled to milliseconds, a
\* larger one is milliseconds, and inverted bounds are swapped
WindowResolution ==
    Fetching("p1") =>
        /\ run["p1"].requests >= 1 => run["p1"].sent # {}
        /\ \A w \in run["p1"].sent :
              CarriesWindow(w, run["p1"].start, run["p1"].end)

\* a call with start one day back and end seven days back has made two page
\* requests, both from seven days back to one day back
WindowResolutionWitness ==
    /\ Fetching("p1")
    /\ run["p1"].start = <<Num(-1)>>
    /\ run["p1"].end = <<Num(-7)>>
    /\ run["p1"].requests = 2
    /\ run["p1"].sent = {<<numSub(NowMs, Num(7 * 86400000)),
                            numSub(NowMs, Num(86400000))>>}

----------------------------------------------------------------------------
(* The status a run returns *)

\* C31  Status reflects writes: a run that has returned "Scheduled task
\* completed successfully." has inserted or updated at least one row, also
\* when every surviving entry was skipped by the year guard; a run that has
\* returned without writing a row has returned "No new logs.".
StatusReflectsWrites ==
    \A p \in Procs :
        run[p].pc = "done" =>
            /\ run[p].status = Completed => run[p].written >= 1
            /\ run[p].written = 0 => run[p].status = NoLogs

----------------------------------------------------------------------------
(* Responses and values of unexpected shape (SpecShapes) *)

\* a reading with a numeric value, a reading whose value carries a unit
\* after the number, a reading whose value is a word, and a report of
\* another data point whose value is a word
ShapePool ==
    { LogEntry("add_ele", Ms(WedMidday), 300),
      [LogEntry("add_ele", Ms(ThuMidday), 300) EXCEPT
          !.value = @ \o Text(<<"k", "W", "h">>)],
      [LogEntry("add_ele", Ms(WedMorning), 0) EXCEPT
          !.value = Text(<<"o", "f", "f">>)],
      [LogEntry("cur_power", Ms(ThuMorning), 0) EXCEPT
          !.value = Text(<<"o", "n">>)] }

\* one device reporting such entries between normal-mode runs in which a
\* page response may come without result and a write may fail, as the write
\* of a total that is not a number does
NextShapes ==
    \/ \E e \in ShapePool : DeviceReports("d1", e)
    \/ processEnergyLogs("p1", "d1", <<>>)
    \/ GoodSteps("p1")
    \/ UpsertBucketFails("p1")
    \/ FirstPageNoResult("p1")
    \/ NextPageNoResult("p1")

SpecShapes == Init /\ [][NextShapes]_vars

\* a text is a decimal numeral
Numeric(text) ==
    Len(text) > 0 /\ \A i \in 1..Len(text) : text[i] \in Digits

\* a run is past the fetch and has not failed
PastFetch(p) == run[p].pc \in {"select", "write", "done"}

\* C32  Malformed remote data is an error: a run that received a response
\* without result, or fetched an add_ele entry whose value is not numeric,
\* fails and writes nothing; an entry whose value is not numeric is never
\* added into a stored total.
MalformedIsError ==
    /\ \A p \in Procs :
          run[p].pageFailed => ~PastFetch(p) /\ run[p].written = 0
    /\ \A p \in Procs :
          PastFetch(p) =>
             \A e \in Range(run[p].allAddEleLogs) : Numeric(e.value)
    /\ \A d \in Devices : \A e \in Range(remote[d]) :
          (e.code = "add_ele" /\ ~Numeric(e.value)) =>
              timesMerged(hist, d, e) = 0

----------------------------------------------------------------------------
(* The chain of page requests of one call (SpecChain) *)

\* what the server may answer to the next request of r: as Answers(r), but
\* a page of logs holds one reading whose value tells the request it
\* answers
ChainAnswers(r) ==
    { [NoAnswer EXCEPT !.kind = "rejected"] } \cup
    { [NoAnswer EXCEPT !.kind = "bare", !.success = s] : s \in BOOLEAN } \cup
    { [kind |-> "result", success |-> s, hasLogs |-> l[1], logs |-> l[2],
       has_next |-> h, key |-> k] :
        s \in BOOLEAN,
        l \in { <<FALSE, <<>>>>, <<TRUE, <<>>>>,
                <<TRUE, <<[ServedEntry EXCEPT
                              !.value = Decimal(100 + r.fetches)]>>>> },
        h \in {"absent", "true", "false"},
        k \in {0, r.next_row_key, r.fetches + 1} }

\* calls of getDeviceLogs for every entry, up to three pages each
NextChain ==
    \/ getDeviceLogs("p1", 1, <<>>, <<>>, 0, <<3>>)
    \/ \E a \in ChainAnswers(run["p1"]) : FirstAnswer("p1", a)
    \/ \E a \in ChainAnswers(run["p1"]) : NextAnswer("p1", a)

SpecChain == InitPages /\ [][NextChain]_vars

\* the call in slot p makes a page request after its first
ChainedRequest(p) ==
    /\ run[p].pc = "glNext"
    /\ run'[p].requests = run[p].requests + 1

\* a step of the call in slot p, not the entry of a new call
SameCall(p) == Fetching(p) /\ Fetching(p)' /\ run'[p].pc # "glFirst"

\* the start_row_key the latest page request of r was signed with
LatestStartRowKey(r) == r.signed[Len(r.signed)].sign.stringToSign[3]

\* a page request after the first carries the next_row_key of the response
\* just before it
FollowsCursor ==
    \A p \in {"p1"} :
        ChainedRequest(p) =>
            /\ run[p].last.kind = "result"
            /\ run[p].last.key # 0
            /\ LatestStartRowKey(run'[p]) = run[p].last.key

\* every step of a call is one page request together with its answer: a
\* request is made only once the one before it has been answered
OneAtATime ==
    \A p \in {"p1"} :
        SameCall(p) =>
            /\ run'[p].requests = run[p].requests + 1
            /\ Len(run'[p].signed) = run'[p].requests
            /\ run'[p].last \in ChainAnswers(run[p])

\* the entries of a response with a result
PageOf(a) == IF a.kind = "result" /\ a.hasLogs THEN a.logs ELSE <<>>

\* the entry list grows by the entries of each response, at its end, as
\* long as the call does not throw
Concatenates ==
    \A p \in {"p1"} :
        /\ (run[p].pc = "glFirst" /\ run'[p].pc # "glThrown") =>
               run'[p].logs = PageOf(run'[p].last)
        /\ (ChainedRequest(p) /\ run'[p].pc # "glThrown") =>
               run'[p].logs = run[p].logs \o PageOf(run'[p].last)

\* no two page requests of a call carry the same nonce or signature
NeverReused ==
    Fetching("p1") =>
        \A i, j \in 1..Len(run["p1"].signed) :
            i # j =>
                /\ run["p1"].signed[i].nonce # run["p1"].signed[j].nonce
                /\ run["p1"].signed[i].sign # run["p1"].signed[j].sign

\* C33  Page chaining: every page request after the first uses as
\* start_row_key the next_row_key of the response just before it, pages are
\* requested one at a time, the returned entry list is the pages' entries
\* joined in request order, and every request of a call carries a nonce and
\* a signature no other request of the call carries.
PageChaining ==
    /\ [][FollowsCursor /\ OneAtATime /\ Concatenates]_vars
    /\ []NeverReused

\* a call has returned the readings of three pages, in the order asked
PageChainingWitness ==
    /\ run["p1"].pc = "glReturned"
    /\ run["p1"].requests = 3
    /\ run["p1"].logs =
          << LogEntry("add_ele", Ms(WedMorning), 100),
             LogEntry("add_ele", Ms(WedMorning), 101),
             LogEntry("add_ele", Ms(WedMorning), 102) >>
    /\ LatestStartRowKey(run["p1"]) = 2

----------------------------------------------------------------------------
(* The daily breakdowns read from the table (SpecBreakdown) *)

\* .limit(30)
MaxDays == 30

\* faulty variant: the query by date ascending
selectRangeAscending(st, devs, startDate, endDate, up) ==
    LET hits == { i \in 1..Len(st) :
                    /\ st[i].deviceId \in devs
                    /\ st[i].date >= startDate
                    /\ st[i].date <= endDate }
        rank == [ i \in hits |->
                    1 + Cardinality(
                          { j \in hits :
                              \/ st[j].date < st[i].date
                              \/ /\ st[j].date = st[i].date
                                 /\ IF up THEN j < i ELSE j > i }) ]
    IN  [ k \in 1..(IF Cardinality(hits) > MaxDays
                    THEN MaxDays ELSE Cardinality(hits)) |->
            st[CHOOSE i \in hits : rank[i] = k] ]

\* the query of both breakdowns: the rows of the devices devs with
\* startDate <= date <= endDate, by date descending, the first MaxDays of
\* them; the table does not say in which order rows of one date come: by
\* rowid ascending when up, descending otherwise
selectRange(st, devs, startDate, endDate, up) ==
    LET hits == { i \in 1..Len(st) :
                    /\ st[i].deviceId \in devs
                    /\ st[i].date >= startDate
                    /\ st[i].date <= endDate }
        rank == [ i \in hits |->
                    1 + Cardinality(
                          { j \in hits :
                              \/ st[j].date > st[i].date
                              \/ /\ st[j].date = st[i].date
                                 /\ IF up THEN j < i ELSE j > i }) ]
    IN  [ k \in 1..(IF Cardinality(hits) > MaxDays
                    THEN MaxDays ELSE Cardinality(hits)) |->
            st[CHOOSE i \in hits : rank[i] = k] ]

\* numbers.reduce((sum, x) => sum + x, 0), over the first n of numbers
RECURSIVE reduce(_, _)
reduce(numbers, n) ==
    IF n = 0 THEN numZero(0)
    ELSE CHOOSE r \in { numAdd(sum, numbers[n]) :
                          sum \in {reduce(numbers, n - 1)} } : TRUE

\* result.reduce((sum, row) => sum + row.lowTariffKwh + row.highTariffKwh, 0),
\* over the first n rows of result
RECURSIVE reduceBoth(_, _)
reduceBoth(result, n) ==
    IF n = 0 THEN numZero(0)
    ELSE CHOOSE r \in { numAdd(numAdd(sum, result[n].lowTariffKwh),
                                 result[n].highTariffKwh) :
                          sum \in {reduceBoth(result, n - 1)} } : TRUE

\* the lowTariffKwh and the highTariffKwh of the rows of a query
lowsOf(result) == [i \in 1..Len(result) |-> result[i].lowTariffKwh]
highsOf(result) == [i \in 1..Len(result) |-> result[i].highTariffKwh]

\* getAllDailyConsumption lines 468-497: the fetched rows grouped by date,
\* each group added up in the order fetched, the groups by date descending
dailyDataOf(result) ==
    LET dates == { result[i].date : i \in 1..Len(result) }
        group == [ d \in dates |-> SelectSeq(result, LAMBDA r : r.date = d) ]
    IN  [ k \in 1..Cardinality(dates) |->
            LET d == CHOOSE x \in dates :
                        Cardinality({ y \in dates : y > x }) = k - 1
                low  == reduce(lowsOf(group[d]), Len(group[d]))
                high == reduce(highsOf(group[d]), Len(group[d]))
            IN  [date |-> d, low |-> low, high |-> high,
                 total |-> numAdd(low, high),
                 devicesCount |->
                    Cardinality({ group[d][i].deviceId :
                                    i \in 1..Len(group[d]) })] ]

\* length > 0 ? total / length : 0
average(total, length) ==
    IF length > 0 THEN numDivInt(total, length) ELSE numZero(0)

\* the summary of a breakdown of n rows
summaryOf(totalLow, totalHigh, grandTotal, n) ==
    [totalLow |-> totalLow, totalHigh |-> totalHigh,
     grandTotal |-> grandTotal,
     averageLow |-> average(totalLow, n),
     averageHigh |-> average(totalHigh, n),
     averageTotal |-> average(grandTotal, n)]

\* the value a breakdown returns, with what it was asked for (devices) and
\* what its query gave (fetched)
Breakdown(devices, startDate, endDate, fetched, dailyData, summary) ==
    [pc |-> "answered", devices |-> devices,
     period |-> [start |-> startDate, end |-> endDate],
     fetched |-> fetched, dailyData |-> dailyData,
     totalDays |-> Len(dailyData), summary |-> summary]

\* lines 391-396: the rows of the query as rows of the breakdown
dailyDataOfRows(result) ==
    [ i \in 1..Len(result) |->
        [date |-> result[i].date,
         low  |-> result[i].lowTariffKwh,
         high |-> result[i].highTariffKwh,
         total |-> numAdd(result[i].lowTariffKwh,
                          result[i].highTariffKwh)] ]

\* lines 398-437: the summary of the breakdown of one device
summaryOfRows(result) ==
    summaryOf(reduce(lowsOf(result), Len(result)),
              reduce(highsOf(result), Len(result)),
              reduceBoth(result, Len(result)), Len(result))

\* lines 503-531: the summary of the breakdown of all devices
summaryOfDates(dailyData) ==
    summaryOf(reduce([i \in 1..Len(dailyData) |-> dailyData[i].low],
                     Len(dailyData)),
              reduce([i \in 1..Len(dailyData) |-> dailyData[i].high],
                     Len(dailyData)),
              reduce([i \in 1..Len(dailyData) |-> dailyData[i].total],
                     Len(dailyData)),
              Len(dailyData))

\* getDailyConsumption(deviceId, startDate, endDate)
getDailyConsumption(p, deviceId, startDate, endDate) ==
    /\ run[p].pc \in {"idle", "answered"}
    /\ \E up \in BOOLEAN :
       \E result \in {selectRange(store, {deviceId}, startDate, endDate, up)} :
          run' = [run EXCEPT ![p] =
             Breakdown({deviceId}, startDate, endDate, result,
                       dailyDataOfRows(result), summaryOfRows(result))]
    /\ UNCHANGED <<store, remote, hist>>

\* getAllDailyConsumption(startDate, endDate)
getAllDailyConsumption(p, startDate, endDate) ==
    /\ run[p].pc \in {"idle", "answered"}
    /\ \E up \in BOOLEAN :
       \E result \in {selectRange(store, Devices, startDate, endDate, up)} :
          run' = [run EXCEPT ![p] =
             Breakdown(Devices, startDate, endDate, result,
                       dailyDataOf(result),
                       summaryOfDates(dailyDataOf(result)))]
    /\ UNCHANGED <<store, remote, hist>>

\* a table after a month of runs: d1 has a row for each of its latest 0, 1,
\* 29, 30 or 31 days up to 2025-07-01, d2 has rows on some of 2025-06-01,
\* 2025-06-02 and 2025-07-01; nothing is running
InitBreakdown ==
    /\ remote = [d \in Devices |-> <<>>]
    /\ run = [p \in Procs |-> EntryState("d1", <<>>)]
    /\ hist = [runs |-> [d \in Devices |-> 0], overlapped |-> FALSE,
               merged |-> [d \in Devices |-> [e \in {} |-> 0]],
               solo |-> [d \in Devices |-> <<>>],
               order |-> [d \in Devices |-> <<>>],
               interleaved |-> FALSE, turned |-> FALSE,
               lastClean |-> [d \in Devices |-> <<>>],
               cut |-> [d \in Devices |-> FALSE],
               resume |-> [d \in Devices |-> <<>>],
               windowed |-> FALSE]
    /\ \E n1 \in {0, 1, 29, 30, 31}, days2 \in SUBSET {1, 2, 31} :
          store =
             [ i \in 1..n1 |->
                 Row(toDateKey(DateAt(DaysFromCivil(2025, 6, 31 - n1 + i) * 24
                                      + 10)),
                     "d1", 10 * i, i,
                     Ms(DaysFromCivil(2025, 6, 31 - n1 + i) * 24 + 10)) ]
             \o [ i \in 1..Cardinality(days2) |->
                    Row(toDateKey(DateAt(DaysFromCivil(2025, 6,
                           CHOOSE x \in days2 :
                              Cardinality({ y \in days2 : y < x }) = i - 1)
                           * 24 + 10)),
                        "d2", 7, 5,
                        Ms(DaysFromCivil(2025, 6,
                           CHOOSE x \in days2 :
                              Cardinality({ y \in days2 : y < x }) = i - 1)
                           * 24 + 10)) ]

\* one breakdown asked for any device or for all, over any period between
\* three of the days
NextBreakdown ==
    \/ /\ run["p1"].pc = "idle"
       /\ \E d \in Devices,
             startDate, endDate \in {20250601, 20250602, 20250701} :
             getDailyConsumption("p1", d, startDate, endDate)
    \/ /\ run["p1"].pc = "idle"
       /\ \E startDate, endDate \in {20250601, 20250602, 20250701} :
             getAllDailyConsumption("p1", startDate, endDate)

SpecBreakdown == InitBreakdown /\ [][NextBreakdown]_vars

\* the sum of the first n of a sequence of numbers, added in order from 0
RECURSIVE SeqSum(_, _)
SeqSum(q, n) ==
    IF n = 0 THEN numZero(0)
    ELSE CHOOSE r \in { numAdd(s, q[n]) : s \in {SeqSum(q, n - 1)} } : TRUE

\* the low and the high of each of the first n rows of a breakdown, one after
\* the other
LowsAndHighs(dailyData) ==
    [j \in 1..(2 * Len(dailyData)) |->
        IF j % 2 = 1 THEN dailyData[(j + 1) \div 2].low
        ELSE dailyData[j \div 2].high]

\* the stored rows of the devices devs dated within a period
InPeriod(devs, period) ==
    { i \in 1..Len(store) :
        /\ store[i].deviceId \in devs
        /\ store[i].date >= period.start
        /\ store[i].date <= period.end }

\* the latest MaxDays dates among the rows S
LatestDates(S) ==
    { store[i].date : i \in
        { j \in S :
            Cardinality({ store[k].date : k \in
                            { l \in S : store[l].date > store[j].date } })
                < MaxDays } }

\* the dates of the rows of a breakdown are the elements of D, descending
DatesDescending(dailyData, D) ==
    /\ { dailyData[k].date : k \in 1..Len(dailyData) } = D
    /\ \A k \in 1..(Len(dailyData) - 1) :
          dailyData[k].date > dailyData[k + 1].date

\* each row's total is its low plus its high, and the low and high totals
\* of a breakdown are the sums over its rows, added in the order of the rows
RowsAddUp(r) ==
    /\ \A k \in 1..Len(r.dailyData) :
          r.dailyData[k].total
              = numAdd(r.dailyData[k].low, r.dailyData[k].high)
    /\ r.summary.totalLow =
          SeqSum([k \in 1..Len(r.dailyData) |-> r.dailyData[k].low],
                 Len(r.dailyData))
    /\ r.summary.totalHigh =
          SeqSum([k \in 1..Len(r.dailyData) |-> r.dailyData[k].high],
                 Len(r.dailyData))

\* the totals of a breakdown of all devices add up: the grand total is the
\* sum of the totals of its dates, added in their order
TotalsAddUp(r) ==
    /\ RowsAddUp(r)
    /\ r.summary.grandTotal =
          SeqSum([k \in 1..Len(r.dailyData) |-> r.dailyData[k].total],
                 Len(r.dailyData))

\* the totals of a breakdown of one device add up: the grand total is the
\* sum of the low and the high of its rows, added row after row
RowTotalsAddUp(r) ==
    /\ RowsAddUp(r)
    /\ r.summary.grandTotal =
          SeqSum(LowsAndHighs(r.dailyData), 2 * Len(r.dailyData))

\* the breakdown r of all devices tells, for each date it returns, the sums
\* over all stored rows of that date and how many devices have one
WholeDates(r) ==
    \A k \in 1..Len(r.dailyData) :
        /\ r.dailyData[k].low =
              SumLow(store, { i \in 1..Len(store) :
                                store[i].date = r.dailyData[k].date })
        /\ r.dailyData[k].high =
              SumHigh(store, { i \in 1..Len(store) :
                                 store[i].date = r.dailyData[k].date })
        /\ r.dailyData[k].devicesCount =
              Cardinality({ store[i].deviceId : i \in
                             { j \in 1..Len(store) :
                                 store[j].date = r.dailyData[k].date } })

\* C34  All-devices daily breakdown: for every date getAllDailyConsumption
\* returns, low and high are the sums over all stored rows of all devices
\* for that date and devicesCount is the number of devices with a row on
\* it; at most 30 dates are returned, in descending order; the summary
\* totals are the sums over the returned dates.
AllDevicesBreakdown ==
    (run["p1"].pc = "answered" /\ run["p1"].devices = Devices) =>
        /\ WholeDates(run["p1"])
        /\ Len(run["p1"].dailyData) <= MaxDays
        /\ \A k \in 1..(Len(run["p1"].dailyData) - 1) :
              run["p1"].dailyData[k].date > run["p1"].dailyData[k + 1].date
        /\ TotalsAddUp(run["p1"])

\* the breakdown r of one device: at most 30 rows, each a stored row of the
\* device within the period, those of the latest dates, latest first; the
\* totals add up, and the averages are 0 when no row is returned
OneDeviceRows(r) ==
    /\ Len(r.dailyData) <= MaxDays
    /\ \A k \in 1..Len(r.dailyData) :
          \E i \in InPeriod(r.devices, r.period) :
             /\ store[i].date = r.dailyData[k].date
             /\ store[i].lowTariffKwh = r.dailyData[k].low
             /\ store[i].highTariffKwh = r.dailyData[k].high
    /\ DatesDescending(r.dailyData,
                       LatestDates(InPeriod(r.devices, r.period)))
    /\ RowTotalsAddUp(r)
    /\ Len(r.dailyData) = 0 =>
          /\ r.summary.averageLow = numZero(0)
          /\ r.summary.averageHigh = numZero(0)
          /\ r.summary.averageTotal = numZero(0)

\* a breakdown leaves the table as it was
BreakdownReadsOnly == run'["p1"].pc = "answered" => store' = store

\* C35  Per-device daily breakdown: getDailyConsumption returns at most 30
\* rows, each a stored row of the device with startDate <= date <= endDate,
\* those of the most recent dates in range in descending order; each row's
\* total is low + high, the summary totals are the sums over the returned
\* rows, all averages are 0 when no row is returned; the call writes
\* nothing.
OneDeviceBreakdown ==
    /\ []((run["p1"].pc = "answered"
            /\ Cardinality(run["p1"].devices) = 1) =>
              OneDeviceRows(run["p1"]))
    /\ [][BreakdownReadsOnly]_vars

\* d1 has 31 rows in the period asked for and the breakdown holds its
\* latest 30
OneDeviceBreakdownWitness ==
    /\ run["p1"].pc = "answered"
    /\ run["p1"].devices = {"d1"}
    /\ Cardinality(InPeriod({"d1"}, run["p1"].period)) = MaxDays + 1
    /\ Len(run["p1"].dailyData) = MaxDays
    /\ run["p1"].dailyData[MaxDays].date = 20250602

====
